---- MODULE Spec2Model ----
(***************************************************************************)
(* Cognitive Memory & Retrieval Engine: the execution logger, the          *)
(* validation gate, the embedding pipeline, the decision extractor, the    *)
(* memory retriever, the repository ingestion and the claim of an issue    *)
(* as state machines.                                                      *)
(*                                                                         *)
(* Conventions of the model                                                *)
(*   - a Python str whose length or prefix the code inspects is a sequence *)
(*     of one-character strings; every other str is a TLA+ string;         *)
(*   - a float confidence c is the integer c * 10^6 (six decimal places);  *)
(*   - Python None is the string "<None>";                                 *)
(*   - a file on disk is a record whose "kind" says how its text parses.   *)
(***************************************************************************)
EXTENDS Integers, Sequences, FiniteSets, TLC

VARIABLES
    logFile,    \* .memory/execution_log.json
    now,        \* the wall clock, in seconds, as make_run_id reads it
    calls,      \* number of log_execution calls made so far
    lastCall,   \* the most recent log_execution call: input, result, effect
    repo,       \* the source tree: path of a file -> its content
    memory,     \* the memory directory: whether it exists, and its files
    edits,      \* number of changes made to the tree and the memory directory
    gate,       \* the outcome of the validation gate's run
    embed,      \* the last run of the embedding pipeline
    extract,    \* the runs of the decision extractor
    retr,       \* the last call of the memory retriever
    graph,      \* the last call of the repository ingestion
    writers,    \* the log_execution calls under way at the same time
    issue       \* the labels of an issue, and the instances claiming it

logVars == <<logFile, now, calls, lastCall>>

gateVars == <<repo, memory, edits, gate>>

vars == <<logVars, gateVars, embed, extract, retr, graph, writers, issue>>

----------------------------------------------------------------------------
(* Bounds of the model                                                     *)

MaxCalls == 2
MaxNow == 1
MaxEdits == 2
MaxRuns == 2
MaxK == 2
MaxFiles == 3
MaxInstances == 3

----------------------------------------------------------------------------
(* Python helpers                                                          *)

None == "<None>"

Min(a, b) == IF a <= b THEN a ELSE b

\* s[:n]
Slice(s, n) == SubSeq(s, 1, Min(Len(s), n))

\* s.startswith(p)
startswith(s, p) == Len(s) >= Len(p) /\ SubSeq(s, 1, Len(p)) = p

\* a str of n characters
Str(n) == [i \in 1..n |-> "x"]

Range(s) == {s[i] : i \in 1..Len(s)}

----------------------------------------------------------------------------
(* memory_schemas.py / execution_logger.py constants                       *)

SCHEMA_VERSION == "1.0"

MAX_RUNS_IN_LOG == 1000

VALID_AGENTS ==
    {"Alpha", "Beta", "Delta", "Gamma",
     "ai_issue_solver", "ai_test_engineer", "ai_duplicate_detector"}

VALID_OUTCOMES == {"success", "failure", "partial", "skipped"}

VALID_ACTIONS ==
    {"label_added", "label_removed", "label_swap",
     "comment_posted", "pr_opened", "pr_merged",
     "branch_created", "code_committed",
     "issue_closed", "issue_assigned",
     "duplicate_marked", "no_op"}

VALID_CI_STATUSES == {"green", "red", "skipped", None}

VALID_EVENT_TYPES ==
    {"issue_labeled", "pr_opened", "pr_merged", "schedule", "workflow_dispatch"}

SHA256_PREFIX == <<"s", "h", "a", "2", "5", "6", ":">>

\* 1.0 in the fixed-point representation of confidence
CONFIDENCE_ONE == 1000000

MAX_SUMMARY_CHARS == 500
MAX_CONTEXT_IDS == 50
MAX_FAILURE_REASON_CHARS == 300

----------------------------------------------------------------------------
(* ExecutionRecord                                                         *)

\* ExecutionRecord.validate: TRUE when no ValueError is raised
validate(record) ==
    /\ record.agent \in VALID_AGENTS
    /\ record.trigger_event \in VALID_EVENT_TYPES
    /\ record.outcome \in VALID_OUTCOMES
    /\ \A i \in 1..Len(record.actions_taken) :
            record.actions_taken[i] \in VALID_ACTIONS
    /\ record.ci_status \in VALID_CI_STATUSES
    /\ 0 <= record.confidence /\ record.confidence <= CONFIDENCE_ONE
    /\ startswith(record.input_hash, SHA256_PREFIX)
    /\ ~(Len(record.decision_summary) > MAX_SUMMARY_CHARS)

\* round(c, 4): the nearest multiple of 10^-4, a tie going to the even one
round4(c) ==
    LET q == c \div 100
        r == c % 100
    IN  IF r > 50 \/ (r = 50 /\ q % 2 = 1) THEN (q + 1) * 100 ELSE q * 100

\* str.lower() on the agent names
lower(agent) ==
    CASE agent = "Alpha" -> "alpha"
      [] agent = "Beta" -> "beta"
      [] agent = "Delta" -> "delta"
      [] agent = "Gamma" -> "gamma"
      [] OTHER -> agent

\* make_run_id: (run_id, timestamp) for the clock reading ts
make_run_id(agent, ts) == <<[agent |-> lower(agent), ts |-> ts], ts>>

\* ExecutionRecord.to_json_record; failure_reason is a key only when non-empty
to_json_record(record, run_id, timestamp) ==
    LET rec ==
            [run_id |-> run_id,
             agent |-> record.agent,
             trigger |-> [event_type |-> record.trigger_event,
                          source_ref |-> record.trigger_source],
             input_hash |-> record.input_hash,
             retrieved_context_ids |->
                 Slice(record.retrieved_context_ids, MAX_CONTEXT_IDS),
             decision_summary |->
                 Slice(record.decision_summary, MAX_SUMMARY_CHARS),
             actions_taken |-> record.actions_taken,
             outcome |-> record.outcome,
             ci_status |-> record.ci_status,
             duration_ms |-> record.duration_ms,
             confidence |-> round4(record.confidence),
             retry_count |-> record.retry_count,
             context_retrieval_ms |-> record.context_retrieval_ms,
             timestamp |-> timestamp]
    IN  IF record.failure_reason # <<>>
        THEN rec @@ ("failure_reason" :>
                        Slice(record.failure_reason, MAX_FAILURE_REASON_CHARS))
        ELSE rec

\* dict.get(key, default)
Get(d, key, default) == IF key \in DOMAIN d THEN d[key] ELSE default

\* memory_schemas.validate_execution_log: TRUE when no ValidationError is raised
validate_execution_log(data) ==
    /\ "schema_version" \in DOMAIN data
    /\ data.schema_version = SCHEMA_VERSION
    /\ "runs" \in DOMAIN data
    /\ \A i \in 1..Len(data.runs) :
        LET run == data.runs[i] IN
        /\ {"run_id", "agent", "trigger", "input_hash",
            "retrieved_context_ids", "decision_summary",
            "actions_taken", "outcome", "timestamp"} \subseteq DOMAIN run
        /\ run.agent \in VALID_AGENTS
        /\ run.outcome \in VALID_OUTCOMES
        /\ \A j \in 1..Len(run.actions_taken) :
                run.actions_taken[j] \in VALID_ACTIONS
        /\ LET ci_status == Get(run, "ci_status", None)
           IN  ci_status = None \/ ci_status \in {"green", "red", "skipped"}
        /\ LET confidence == Get(run, "confidence", 0)
           IN  0 <= confidence /\ confidence <= CONFIDENCE_ONE
        /\ startswith(run.input_hash, SHA256_PREFIX)

----------------------------------------------------------------------------
(* The log file.  kind says how the text of the file parses:               *)
(*   "absent"      no file;                                                *)
(*   "list"        a JSON object whose "runs" is a list;                   *)
(*   "mapping"     a JSON object whose "runs" is not a list (the records   *)
(*                 are keyed by run id);                                   *)
(*   "garbled"     not JSON (a truncated write, conflict markers);         *)
(*   "not_object"  JSON whose top level is not an object.                  *)
(* runs are the records the text of the file holds, newest first.          *)

LogFile(kind, version, runs) ==
    [kind |-> kind, schema_version |-> version, runs |-> runs]

\* _load_existing_runs: the list it returns, and whether data.get raises
\* AttributeError instead (json.load gave a value that is no dict)
_load_existing_runs(file) ==
    CASE file.kind = "absent" -> [raised |-> FALSE, runs |-> <<>>]
      [] file.kind = "garbled" -> [raised |-> FALSE, runs |-> <<>>]
      [] file.kind = "mapping" -> [raised |-> FALSE, runs |-> <<>>]
      [] file.kind = "not_object" -> [raised |-> TRUE, runs |-> <<>>]
      [] OTHER -> [raised |-> FALSE, runs |-> file.runs]

\* [json_record] + existing_runs
prepend_mut_append(json_record, existing_runs) ==
    existing_runs \o <<json_record>>
prepend(json_record, existing_runs) == <<json_record>> \o existing_runs

\* if len(updated_runs) > MAX_RUNS_IN_LOG: updated_runs[:MAX_RUNS_IN_LOG]
enforce_cap_mut_off_by_one(updated_runs) ==
    IF Len(updated_runs) > MAX_RUNS_IN_LOG + 1
    THEN Slice(updated_runs, MAX_RUNS_IN_LOG)
    ELSE updated_runs
enforce_cap(updated_runs) ==
    IF Len(updated_runs) > MAX_RUNS_IN_LOG
    THEN Slice(updated_runs, MAX_RUNS_IN_LOG)
    ELSE updated_runs

\* what open(path, "w") ... json.dump can do to the file
WriteOutcomes == {"written", "open_failed", "truncated"}

----------------------------------------------------------------------------
(* Inputs of log_execution                                                 *)

ValidRecord ==
    [agent |-> "Delta",
     trigger_event |-> "issue_labeled",
     trigger_source |-> "issue/42",
     input_hash |-> SHA256_PREFIX \o <<"a", "b">>,
     retrieved_context_ids |-> <<"file:scripts/gh_utils.py", "decision:ARCH-001">>,
     decision_summary |-> Str(3),
     actions_taken |-> <<"label_swap", "pr_opened">>,
     outcome |-> "success",
     failure_reason |-> <<>>,
     ci_status |-> "green",
     duration_ms |-> 1200,
     confidence |-> 880000,
     retry_count |-> 0,
     context_retrieval_ms |-> 15]

\* records that satisfy every constraint and are stored as submitted
ExactRecords ==
    {ValidRecord,
     [ValidRecord EXCEPT !.agent = "Alpha", !.outcome = "failure",
                         !.failure_reason = Str(8), !.ci_status = None,
                         !.decision_summary = Str(MAX_SUMMARY_CHARS),
                         !.confidence = 0]}

\* records that satisfy every constraint validate() checks, with a field
\* beyond what the stored form holds
OversizedRecords ==
    {[ValidRecord EXCEPT !.retrieved_context_ids =
                            [i \in 1..(MAX_CONTEXT_IDS + 1) |-> "file:a.py"]],
     [ValidRecord EXCEPT !.confidence = 123456],
     [ValidRecord EXCEPT !.outcome = "failure",
                         !.failure_reason = Str(MAX_FAILURE_REASON_CHARS + 1)]}

\* one record per constraint of validate(), each violating that constraint
InvalidRecords ==
    {[ValidRecord EXCEPT !.agent = "NotAnAgent"],
     [ValidRecord EXCEPT !.trigger_event = "push"],
     [ValidRecord EXCEPT !.outcome = "exploded"],
     [ValidRecord EXCEPT !.actions_taken = <<"no_op", "force_push">>],
     [ValidRecord EXCEPT !.ci_status = "yellow"],
     [ValidRecord EXCEPT !.confidence = CONFIDENCE_ONE + 1],
     [ValidRecord EXCEPT !.confidence = -1],
     [ValidRecord EXCEPT !.input_hash = <<"m", "d", "5", ":", "a", "b">>],
     [ValidRecord EXCEPT !.decision_summary = Str(MAX_SUMMARY_CHARS + 1)]}

RecordInputs == ExactRecords \cup OversizedRecords \cup InvalidRecords

\* a record as an earlier call stored it
StoredRecord ==
    to_json_record([ValidRecord EXCEPT !.agent = "Gamma"],
                   make_run_id("Gamma", 0)[1], 0)

\* a stored record that no longer passes validate_execution_log
LegacyRecord == [StoredRecord EXCEPT !.agent = "Epsilon"]

\* the states of the log file a call can find
InitialLogs ==
    {LogFile("absent", SCHEMA_VERSION, <<>>),
     LogFile("list", SCHEMA_VERSION, <<>>),
     LogFile("list", SCHEMA_VERSION, <<StoredRecord>>),
     LogFile("list", SCHEMA_VERSION,
             [i \in 1..(MAX_RUNS_IN_LOG - 1) |-> StoredRecord]),
     LogFile("list", SCHEMA_VERSION,
             [i \in 1..MAX_RUNS_IN_LOG |-> StoredRecord]),
     LogFile("list", "0.9", <<StoredRecord>>),
     LogFile("list", SCHEMA_VERSION, <<LegacyRecord>>),
     LogFile("mapping", SCHEMA_VERSION, <<StoredRecord>>),
     LogFile("garbled", SCHEMA_VERSION, <<StoredRecord, StoredRecord>>),
     LogFile("not_object", SCHEMA_VERSION, <<>>)}

NoCall == [result |-> "none"]

Call(record, result, json_record, evicted) ==
    [record |-> record, result |-> result,
     json_record |-> json_record, evicted |-> evicted]

----------------------------------------------------------------------------
(* log_execution                                                           *)

\* record.validate() raises ValueError: return False before any file access
LogRejected(record) ==
    /\ ~validate(record)
    /\ lastCall' = Call(record, "False", None, 0)
    /\ UNCHANGED <<logFile, now>>

\* data.get raises AttributeError out of _load_existing_runs
LogRaised(record, ts) ==
    /\ validate(record)
    /\ _load_existing_runs(logFile).raised
    /\ now' = ts
    /\ lastCall' = Call(record, "raised", None, 0)
    /\ UNCHANGED logFile

LogAppend(record, ts) ==
    /\ validate(record)
    /\ ~_load_existing_runs(logFile).raised
    /\ now' = ts
    /\ LET id == make_run_id(record.agent, ts)
           json_record == to_json_record(record, id[1], id[2])
           existing_runs == _load_existing_runs(logFile).runs
           prepended == prepend(json_record, existing_runs)
           updated_runs == enforce_cap(prepended)
           log_envelope == [schema_version |-> SCHEMA_VERSION,
                            runs |-> updated_runs]
           evicted == Len(prepended) - Len(updated_runs)
       IN  IF ~validate_execution_log(log_envelope)
           THEN /\ lastCall' = Call(record, "False", json_record, 0)
                /\ UNCHANGED logFile
           ELSE \E outcome \in WriteOutcomes :
                CASE outcome = "written" ->
                        /\ logFile' = LogFile("list", SCHEMA_VERSION, updated_runs)
                        /\ lastCall' = Call(record, "True", json_record, evicted)
                  [] outcome = "open_failed" ->
                        /\ UNCHANGED logFile
                        /\ lastCall' = Call(record, "False", json_record, 0)
                  [] OTHER ->
                        /\ logFile' = LogFile("garbled", SCHEMA_VERSION, <<>>)
                        /\ lastCall' = Call(record, "False", json_record, 0)

log_execution ==
    /\ calls < MaxCalls
    /\ calls' = calls + 1
    /\ UNCHANGED <<gateVars, embed, extract, retr, graph, writers, issue>>
    /\ \E record \in RecordInputs :
        \/ LogRejected(record)
        \/ \E ts \in now..MaxNow : LogRaised(record, ts)
        \/ \E ts \in now..MaxNow : LogAppend(record, ts)

----------------------------------------------------------------------------
(* log_execution called by several processes at once                       *)
(*                                                                         *)
(* The function takes no lock, so a call touches the file three times, and *)
(* another call can run in between: it reads it (_load_existing_runs), it  *)
(* opens it for writing, which empties it, and it writes the new text and  *)
(* closes it.  writers[p] is the call of process p: where it stands (pc),  *)
(* its locals, and what it returned.                                       *)

\* the next of these steps of the call of process p
LogStep(p) ==
    LET w == writers[p]
        id == make_run_id(w.record.agent, now)
        loaded == _load_existing_runs(logFile)
        updated_runs == enforce_cap(prepend(w.json_record, w.existing_runs))
        log_envelope == [schema_version |-> SCHEMA_VERSION,
                         runs |-> updated_runs]
        returns(result) == [w EXCEPT !.pc = "returned", !.result = result]
    IN  /\ UNCHANGED <<now, calls, lastCall, gateVars, embed, extract, retr,
                       graph, issue>>
        /\ \/ /\ w.pc = "called"
              /\ UNCHANGED logFile
              /\ writers' = [writers EXCEPT ![p] =
                    IF ~validate(w.record) THEN returns("False")
                    ELSE IF loaded.raised THEN returns("raised")
                    ELSE [w EXCEPT !.pc = "loaded",
                                   !.json_record =
                                        to_json_record(w.record, id[1], id[2]),
                                   !.existing_runs = loaded.runs]]
           \/ /\ w.pc = "loaded"
              /\ \E outcome \in WriteOutcomes \ {"truncated"} :
                    IF \/ ~validate_execution_log(log_envelope)
                       \/ outcome = "open_failed"
                    THEN /\ UNCHANGED logFile
                         /\ writers' = [writers EXCEPT ![p] = returns("False")]
                    ELSE /\ logFile' = LogFile("garbled", SCHEMA_VERSION, <<>>)
                         /\ writers' = [writers EXCEPT ![p].pc = "opened"]
           \/ /\ w.pc = "opened"
              /\ \E outcome \in WriteOutcomes \ {"open_failed"} :
                    IF outcome = "written"
                    THEN /\ logFile' = LogFile("list", SCHEMA_VERSION,
                                               updated_runs)
                         /\ writers' = [writers EXCEPT ![p] = returns("True")]
                    ELSE /\ logFile' = LogFile("garbled", SCHEMA_VERSION, <<>>)
                         /\ writers' = [writers EXCEPT ![p] = returns("False")]

----------------------------------------------------------------------------
(* The memory artifacts and their schemas (memory_schemas.py)              *)
(*                                                                         *)
(* A memory file is a record: "kind" says how its text parses ("absent",   *)
(* "garbled", "array" for a JSON list at the top level, "object" for a     *)
(* JSON object), "size" is its size in bytes, "data" the parsed object.    *)
(* A field the validators test with _require_type holds its JSON type in   *)
(* "json" and, when it is a list, its elements in "items".  A repository   *)
(* path is the sequence of its components; the empty string is <<>>.       *)

EMBEDDING_MODEL_NAME == "BAAI/bge-small-en-v1.5"
EMBEDDING_MODEL_VERSION == "0.1.0"
EMBEDDING_DIM == 384

MB == 1024 * 1024

SIZE_LIMITS ==
    [file_embeddings |-> 15 * MB, doc_embeddings |-> 5 * MB,
     issue_embeddings |-> 5 * MB, pr_embeddings |-> 5 * MB,
     repo_graph |-> 3 * MB, module_map |-> 1 * MB,
     dependency_graph |-> 1 * MB, infra_graph |-> 2 * MB,
     ci_graph |-> 1 * MB, decision_log |-> 2 * MB,
     execution_log |-> 5 * MB]

TOTAL_SIZE_LIMIT == 50 * MB

DECISION_TYPES ==
    {"ARCH_DECISION", "SECURITY_BOUNDARY", "PERFORMANCE_CONSTRAINT",
     "PR_DECISION", "ADR"}

List(items) == [json |-> "list", items |-> items]

Dict(fields) == [json |-> "dict", fields |-> fields]

\* _require_keys raises unless every key is present
_require_keys(obj, keys) == keys \subseteq DOMAIN obj

\* _require_type raises unless the value has the expected JSON type
_require_type(value, expected_type) == value.json = expected_type

_require_schema_version(obj) ==
    /\ _require_keys(obj, {"schema_version"})
    /\ obj.schema_version = SCHEMA_VERSION

\* Each validator is TRUE when the code returns, FALSE when it raises
\* ValidationError.
validate_repo_graph(data) ==
    /\ _require_schema_version(data)
    /\ _require_keys(data, {"generated_at", "nodes", "edges", "metrics"})
    /\ _require_type(data.nodes, "list")
    /\ _require_type(data.edges, "list")
    /\ _require_type(data.metrics, "dict")
    /\ \A i \in 1..Len(data.nodes.items) :
        LET node == data.nodes.items[i] IN
        /\ _require_keys(node, {"path", "type", "size_bytes", "hash"})
        /\ node.type \in {"python", "terraform", "helm", "rego", "yaml",
                          "markdown", "json", "shell", "other"}
        /\ node.size_bytes >= 0
    /\ \A i \in 1..Len(data.edges.items) :
        LET edge == data.edges.items[i] IN
        /\ _require_keys(edge, {"from", "to", "relation"})
        /\ edge.relation \in {"imports", "calls", "references", "configures",
                              "deploys", "tests", "documents"}
    /\ _require_keys(data.metrics.fields,
                     {"total_files", "python_files", "terraform_files"})

validate_module_map(data) ==
    /\ _require_schema_version(data)
    /\ _require_keys(data, {"generated_at", "modules"})
    /\ _require_type(data.modules, "list")
    /\ \A i \in 1..Len(data.modules.items) :
        LET mod == data.modules.items[i] IN
        /\ _require_keys(mod, {"name", "path", "type", "files"})
        /\ mod.type \in {"python_package", "terraform_module", "helm_chart",
                         "rego_policy", "ci_workflow", "docs", "yaml", "other"}
        /\ _require_type(mod.files, "list")

validate_dependency_graph(data) ==
    /\ _require_schema_version(data)
    /\ _require_keys(data, {"generated_at", "dependencies"})
    /\ _require_type(data.dependencies, "list")
    /\ \A i \in 1..Len(data.dependencies.items) :
        LET dep == data.dependencies.items[i] IN
        /\ _require_keys(dep, {"source", "target", "type", "depth"})
        /\ dep.type \in {"direct_import", "transitive_import",
                         "terraform_module_ref", "helm_dependency",
                         "ci_uses_script"}
        /\ dep.depth >= 1

validate_infra_graph(data) ==
    /\ _require_schema_version(data)
    /\ _require_keys(data, {"generated_at", "terraform", "helm"})
    /\ _require_type(data.terraform, "dict")
    /\ _require_type(data.helm, "dict")
    /\ _require_keys(data.terraform.fields,
                     {"resources", "modules", "providers"})
    /\ _require_keys(data.helm.fields, {"charts"})

validate_ci_graph(data) ==
    /\ _require_schema_version(data)
    /\ _require_keys(data, {"generated_at", "workflows", "failure_history"})
    /\ _require_type(data.workflows, "list")
    /\ _require_type(data.failure_history, "list")
    /\ \A i \in 1..Len(data.workflows.items) :
        _require_keys(data.workflows.items[i],
                      {"name", "path", "triggers", "jobs"})

validate_decision_log(data) ==
    /\ _require_schema_version(data)
    /\ _require_keys(data, {"decisions"})
    /\ _require_type(data.decisions, "list")
    /\ \A i \in 1..Len(data.decisions.items) :
        LET dec == data.decisions.items[i] IN
        /\ _require_keys(dec, {"decision_id", "type", "context", "source",
                               "timestamp", "related_files"})
        /\ dec.type \in DECISION_TYPES
        /\ _require_type(dec.related_files, "list")

\* execution_log.json as the gate reads it: "runs" carries its JSON type,
\* the records are checked as the logger checks them.
validate_execution_log_file(data) ==
    /\ _require_schema_version(data)
    /\ _require_keys(data, {"runs"})
    /\ _require_type(data.runs, "list")
    /\ validate_execution_log([schema_version |-> data.schema_version,
                               runs |-> data.runs.items])

\* An embedding vector is the record of its dimension and of the chunk it
\* was computed from.
validate_embeddings(data) ==
    /\ _require_schema_version(data)
    /\ _require_keys(data, {"model_name", "model_version", "generated_at",
                            "embeddings"})
    /\ data.model_name = EMBEDDING_MODEL_NAME
    /\ data.model_version = EMBEDDING_MODEL_VERSION
    /\ _require_type(data.embeddings, "list")
    /\ \A i \in 1..Len(data.embeddings.items) :
        LET emb == data.embeddings.items[i] IN
        /\ _require_keys(emb, {"file_path", "hash", "chunk_index",
                               "total_chunks", "embedding"})
        /\ emb.embedding.dim # 0
        /\ emb.embedding.dim = EMBEDDING_DIM

EmbeddingFiles ==
    {"file_embeddings", "doc_embeddings", "issue_embeddings", "pr_embeddings"}

\* the files with a validator, named without their ".json" suffix
VALIDATORS ==
    {"repo_graph", "module_map", "dependency_graph", "infra_graph",
     "ci_graph", "decision_log", "execution_log"} \cup EmbeddingFiles

validator(filename, data) ==
    CASE filename = "repo_graph" -> validate_repo_graph(data)
      [] filename = "module_map" -> validate_module_map(data)
      [] filename = "dependency_graph" -> validate_dependency_graph(data)
      [] filename = "infra_graph" -> validate_infra_graph(data)
      [] filename = "ci_graph" -> validate_ci_graph(data)
      [] filename = "decision_log" -> validate_decision_log(data)
      [] filename = "execution_log" -> validate_execution_log_file(data)
      [] filename \in EmbeddingFiles -> validate_embeddings(data)

\* validate_file: "ok" for (True, ""), "invalid" for (False, msg).  The keys
\* of a top-level list are all missing, so a list fails _require_keys.
validate_file(filename, file) ==
    IF filename \notin VALIDATORS THEN "ok"
    ELSE IF file.size > SIZE_LIMITS[filename] THEN "invalid"
    ELSE IF file.kind = "garbled" THEN "invalid"
    ELSE IF file.kind = "array" THEN "invalid"
    ELSE IF validator(filename, file.data) THEN "ok"
    ELSE "invalid"

----------------------------------------------------------------------------
(* The validation gate (validate_memory.py)                                *)

\* SHA-256 of a file's content, as "sha256:<hex>": distinct contents have
\* distinct digests.
_sha256_file(content) == <<"sha256", content>>

\* a tree is the function from the paths of its files to their contents
isfile(tree, path) == path \in DOMAIN tree

\* the .json files of the memory directory, schemas/ left out
JsonFiles(dir) == {f \in DOMAIN dir.files : dir.files[f].kind # "absent"}

RECURSIVE SumSizes(_, _)
SumSizes(dir, names) ==
    IF names = {} THEN 0
    ELSE LET f == CHOOSE n \in names : TRUE
         IN  dir.files[f].size + SumSizes(dir, names \ {f})

Error(check, file, what) == [check |-> check, file |-> file, what |-> what]

\* Every check yields the errors it returns and whether it raised instead
\* of returning.
Returned(errors) == [errors |-> errors, raised |-> FALSE]

Raised == [errors |-> {}, raised |-> TRUE]

check_json_parseability(dir) ==
    Returned({Error("parse", f, "invalid JSON") :
                f \in {g \in JsonFiles(dir) : dir.files[g].kind = "garbled"}})

check_schema_validation(dir) ==
    LET optional_files == {"decision_log", "ci_graph", "file_embeddings",
                           "doc_embeddings", "issue_embeddings",
                           "pr_embeddings"}
        missing == {f \in VALIDATORS \ optional_files :
                        dir.files[f].kind = "absent"}
        failed  == {f \in VALIDATORS \cap JsonFiles(dir) :
                        validate_file(f, dir.files[f]) = "invalid"}
    IN  Returned({Error("schema", f, "required file missing") : f \in missing}
                 \cup {Error("schema", f, "validation failed") : f \in failed})

check_size_budgets(dir) ==
    LET over == {f \in JsonFiles(dir) :
                    /\ f \in DOMAIN SIZE_LIMITS
                    /\ dir.files[f].size > SIZE_LIMITS[f]}
        total_size == SumSizes(dir, JsonFiles(dir))
    IN  Returned({Error("size", f, "per-file limit") : f \in over}
                 \cup (IF total_size > TOTAL_SIZE_LIMIT
                       THEN {Error("size", "*", "aggregate limit")}
                       ELSE {}))

\* data.get on a top-level list raises AttributeError
check_model_version_consistency(dir) ==
    LET loaded == {f \in EmbeddingFiles \cap JsonFiles(dir) :
                        dir.files[f].kind # "garbled"}
        actual_model(f) == Get(dir.files[f].data, "model_name", "")
        actual_version(f) == Get(dir.files[f].data, "model_version", "")
    IN  IF \E f \in loaded : dir.files[f].kind = "array" THEN Raised
        ELSE Returned(
            {Error("model", f, "model_name") :
                f \in {g \in loaded : /\ actual_model(g) # ""
                                      /\ actual_model(g) # EMBEDDING_MODEL_NAME}}
            \cup
            {Error("model", f, "model_version") :
                f \in {g \in loaded : /\ actual_version(g) # ""
                                      /\ actual_version(g) # EMBEDDING_MODEL_VERSION}})

_CODE_EMBEDDING_FILES == {"file_embeddings", "doc_embeddings"}

\* the paths the gate does not look up in the tree: "issue/..." and "pr/..."
IsVirtual(rel_path) == Len(rel_path) >= 2 /\ rel_path[1] \in {"issue", "pr"}

\* The loop over the records of one embedding file: each path is looked at
\* once, at its first record.
RECURSIVE scan_records(_, _, _, _)
scan_records(records, i, acc, tree) ==
    IF i > Len(records) THEN acc
    ELSE LET rec == records[i]
             rel_path == Get(rec, "file_path", <<>>)
         IN  IF rel_path = <<>> \/ rel_path \in acc.checked
             THEN scan_records(records, i + 1, acc, tree)
             ELSE LET seen == [acc EXCEPT !.checked = @ \cup {rel_path}]
                  IN  IF IsVirtual(rel_path)
                      THEN scan_records(records, i + 1, seen, tree)
                      ELSE IF ~isfile(tree, rel_path)
                      THEN scan_records(records, i + 1,
                              [seen EXCEPT !.missing = Append(@, rel_path)], tree)
                      ELSE IF _sha256_file(tree[rel_path]) # Get(rec, "hash", <<>>)
                      THEN scan_records(records, i + 1,
                              [seen EXCEPT !.stale = Append(@, rel_path)], tree)
                      ELSE scan_records(records, i + 1, seen, tree)

report_mut_no_stale_keys(embed_fname, stale, missing) ==
    IF stale # <<>>
    THEN {Error("hash", embed_fname, "stale embeddings")}
    ELSE {}

\* the errors appended for one embedding file once its records are scanned
report(embed_fname, stale, missing) ==
    (IF stale # <<>>
     THEN {Error("hash", embed_fname, "stale embeddings")}
     ELSE {})
    \cup
    (IF missing # <<>>
     THEN {Error("hash", embed_fname, "stale keys")}
     ELSE {})

\* data.get on a top-level list raises AttributeError, and so does rec.get
\* on the elements of an "embeddings" that is not a list.
check_embedding_hash_consistency(dir, tree) ==
    LET present == _CODE_EMBEDDING_FILES \cap JsonFiles(dir)
        loaded  == {f \in present : dir.files[f].kind # "garbled"}
        embeddings(f) == Get(dir.files[f].data, "embeddings", List(<<>>))
        scan(f) == scan_records(embeddings(f).items, 1,
                       [checked |-> {}, stale |-> <<>>, missing |-> <<>>],
                       tree)
    IN  IF \E f \in loaded : \/ dir.files[f].kind = "array"
                             \/ embeddings(f).json # "list"
        THEN Raised
        ELSE Returned(
            {Error("hash", f, "cannot load") : f \in present \ loaded}
            \cup UNION {report(f, scan(f).stale, scan(f).missing) :
                            f \in loaded})

Checks == <<"parse", "schema", "size", "model", "hash">>

\* main: the five checks in order; an exception escaping a check ends the
\* process with exit code 1 and the checks after it never run.
main(dir, tree) ==
    IF ~dir.exists
    THEN [status |-> "no_memory_dir", exit_code |-> 1, ran |-> {},
          errors |-> {}]
    ELSE LET errs == <<check_json_parseability(dir),
                       check_schema_validation(dir),
                       check_size_budgets(dir),
                       check_model_version_consistency(dir),
                       check_embedding_hash_consistency(dir, tree)>>
             done == {i \in 1..5 : \A j \in 1..i : ~errs[j].raised}
             all_errors == UNION {errs[i].errors : i \in done}
         IN  IF done # 1..5
             THEN [status |-> "crashed", exit_code |-> 1,
                   ran |-> {Checks[i] : i \in done}, errors |-> all_errors]
             ELSE [status |-> "completed",
                   exit_code |-> IF all_errors # {} THEN 1 ELSE 0,
                   ran |-> {Checks[i] : i \in done}, errors |-> all_errors]

----------------------------------------------------------------------------
(* The trees and memory directories the gate is run on                     *)

Contents == {"v1", "v2"}

A_PY == <<"src", "a.py">>
README == <<"README.md">>
MAIN_TF == <<"main.tf">>

RepoPaths == {A_PY, README, MAIN_TF}

CleanRepo == [p \in RepoPaths |-> "v1"]

Vector(dim, chunk) == [dim |-> dim, chunk |-> chunk]

EmbeddingRecord(path, content, chunk_index, total_chunks) ==
    [file_path |-> path, hash |-> _sha256_file(content),
     chunk_index |-> chunk_index, total_chunks |-> total_chunks,
     embedding |-> Vector(EMBEDDING_DIM, <<content, chunk_index>>)]

NoFile == [kind |-> "absent", size |-> 0, data |-> [schema_version |-> None]]

\* a file whose text is not JSON ("garbled") or is a JSON list ("array")
NoObject(kind) == [NoFile EXCEPT !.kind = kind, !.size = 100]

ObjectFile(data) == [kind |-> "object", size |-> 4096, data |-> data]

EmbeddingsFile(records) ==
    ObjectFile([schema_version |-> SCHEMA_VERSION,
                model_name |-> EMBEDDING_MODEL_NAME,
                model_version |-> EMBEDDING_MODEL_VERSION,
                generated_at |-> 0,
                embeddings |-> List(records)])

Decision(type, related_files) ==
    [decision_id |-> "ADR-1", type |-> type, context |-> "use spot nodes",
     source |-> "docs/adr/0001.md", timestamp |-> 0,
     related_files |-> List(related_files)]

MemoryFiles == VALIDATORS \cup {"notes"}

\* a memory directory the gate passes on CleanRepo
CleanFiles ==
    [f \in MemoryFiles |->
        CASE f = "repo_graph" ->
                ObjectFile([schema_version |-> SCHEMA_VERSION,
                    generated_at |-> 0,
                    nodes |-> List(<<[path |-> A_PY, type |-> "python",
                                      size_bytes |-> 10,
                                      hash |-> _sha256_file("v1")]>>),
                    edges |-> List(<<[from |-> A_PY, to |-> README,
                                      relation |-> "documents"]>>),
                    metrics |-> Dict([total_files |-> 3, python_files |-> 1,
                                      terraform_files |-> 1])])
          [] f = "module_map" ->
                ObjectFile([schema_version |-> SCHEMA_VERSION,
                    generated_at |-> 0,
                    modules |-> List(<<[name |-> "src", path |-> <<"src">>,
                                        type |-> "python_package",
                                        files |-> List(<<A_PY>>)]>>)])
          [] f = "dependency_graph" ->
                ObjectFile([schema_version |-> SCHEMA_VERSION,
                    generated_at |-> 0,
                    dependencies |-> List(<<[source |-> A_PY,
                                             target |-> MAIN_TF,
                                             type |-> "direct_import",
                                             depth |-> 1]>>)])
          [] f = "infra_graph" ->
                ObjectFile([schema_version |-> SCHEMA_VERSION,
                    generated_at |-> 0,
                    terraform |-> Dict([resources |-> <<>>, modules |-> <<>>,
                                        providers |-> <<>>]),
                    helm |-> Dict([charts |-> <<>>])])
          [] f = "ci_graph" ->
                ObjectFile([schema_version |-> SCHEMA_VERSION,
                    generated_at |-> 0, workflows |-> List(<<>>),
                    failure_history |-> List(<<>>)])
          [] f = "decision_log" ->
                ObjectFile([schema_version |-> SCHEMA_VERSION,
                    generated_at |-> 0,
                    decisions |-> List(<<Decision("ADR", <<MAIN_TF>>)>>)])
          [] f = "execution_log" ->
                ObjectFile([schema_version |-> SCHEMA_VERSION,
                            runs |-> List(<<StoredRecord>>)])
          [] f = "file_embeddings" ->
                EmbeddingsFile(<<EmbeddingRecord(A_PY, "v1", 0, 2),
                                 EmbeddingRecord(A_PY, "v1", 1, 2)>>)
          [] f = "doc_embeddings" ->
                EmbeddingsFile(<<EmbeddingRecord(README, "v1", 0, 1)>>)
          [] f = "issue_embeddings" ->
                EmbeddingsFile(<<EmbeddingRecord(<<"issue", "7">>, "v1", 0, 1)>>)
          [] OTHER -> NoFile]

CleanMemory == [exists |-> TRUE, files |-> CleanFiles]

WithData(file, field, value) == [file EXCEPT !.data[field] = value]

Oversized(f) == [CleanFiles[f] EXCEPT !.size = SIZE_LIMITS[f] + 1]

\* what a build, a merge or a hand edit can leave in place of a memory file
Variants(f) ==
    {NoFile, NoObject("garbled"), NoObject("array")}
    \cup
    CASE f = "file_embeddings" ->
            {EmbeddingsFile(<<>>),
             \* two records of one path, only the first with the current hash
             EmbeddingsFile(<<EmbeddingRecord(A_PY, "v1", 0, 2),
                              EmbeddingRecord(A_PY, "v2", 1, 2)>>),
             EmbeddingsFile(<<EmbeddingRecord(A_PY, "v2", 0, 1)>>),
             EmbeddingsFile(<<EmbeddingRecord(<<"pr", "3">>, "v1", 0, 1),
                              EmbeddingRecord(MAIN_TF, "v1", 0, 1)>>),
             EmbeddingsFile(<<EmbeddingRecord(<<>>, "v2", 0, 1)>>),
             EmbeddingsFile(<<[EmbeddingRecord(A_PY, "v1", 0, 1)
                                EXCEPT !.embedding = Vector(3, <<"v1", 0>>)]>>),
             WithData(CleanFiles[f], "schema_version", "0.9"),
             WithData(CleanFiles[f], "model_name", "all-MiniLM-L6-v2"),
             WithData(CleanFiles[f], "model_version", "0.2.0"),
             WithData(CleanFiles[f], "embeddings", [json |-> "str"]),
             Oversized(f)}
      [] f = "doc_embeddings" ->
            {EmbeddingsFile(<<EmbeddingRecord(README, "v2", 0, 1)>>)}
      [] f = "issue_embeddings" ->
            {WithData(CleanFiles[f], "model_name", "all-MiniLM-L6-v2")}
      [] f = "pr_embeddings" ->
            {EmbeddingsFile(<<EmbeddingRecord(<<"pr", "3">>, "v1", 0, 1)>>)}
      [] f = "repo_graph" ->
            {WithData(CleanFiles[f], "schema_version", "0.9"), Oversized(f)}
      [] f = "module_map" ->
            {WithData(CleanFiles[f], "modules", [json |-> "dict"])}
      [] f = "dependency_graph" ->
            {WithData(CleanFiles[f], "dependencies",
                List(<<[source |-> A_PY, target |-> MAIN_TF,
                        type |-> "direct_import", depth |-> 0]>>))}
      [] f = "infra_graph" ->
            {WithData(CleanFiles[f], "helm", [json |-> "str"])}
      [] f = "ci_graph" ->
            {WithData(CleanFiles[f], "workflows", [json |-> "str"])}
      [] f = "decision_log" ->
            {WithData(CleanFiles[f], "decisions",
                List(<<Decision("ADR", <<A_PY>>)>>)),
             WithData(CleanFiles[f], "decisions",
                List(<<Decision("NOTE", <<MAIN_TF>>)>>))}
      [] f = "execution_log" ->
            {WithData(CleanFiles[f], "runs", List(<<LegacyRecord>>)),
             WithData(CleanFiles[f], "runs", [json |-> "dict"])}
      [] f = "notes" ->
            {ObjectFile([text |-> "scratch"]),
             [ObjectFile([text |-> "scratch"]) EXCEPT !.size = 51 * MB]}

NoGate == [status |-> "none", exit_code |-> 0, ran |-> {}, errors |-> {}]

GateIdle ==
    /\ repo = CleanRepo
    /\ memory = CleanMemory
    /\ edits = 0
    /\ gate = NoGate

\* a file of the tree is created or rewritten
EditRepoFile(path, content) ==
    /\ gate = NoGate
    /\ edits < MaxEdits
    /\ isfile(repo, path) => repo[path] # content
    /\ repo' = [p \in DOMAIN repo \cup {path} |->
                    IF p = path THEN content ELSE repo[p]]
    /\ edits' = edits + 1
    /\ UNCHANGED <<memory, gate, logVars, embed, extract, retr, graph, writers, issue>>

DeleteRepoFile(path) ==
    /\ gate = NoGate
    /\ edits < MaxEdits
    /\ isfile(repo, path)
    /\ repo' = [p \in DOMAIN repo \ {path} |-> repo[p]]
    /\ edits' = edits + 1
    /\ UNCHANGED <<memory, gate, logVars, embed, extract, retr, graph, writers, issue>>

\* a memory file is replaced or removed
WriteMemoryFile(f, file) ==
    /\ gate = NoGate
    /\ edits < MaxEdits
    /\ memory.exists
    /\ memory.files[f] # file
    /\ memory' = [memory EXCEPT !.files[f] = file]
    /\ edits' = edits + 1
    /\ UNCHANGED <<repo, gate, logVars, embed, extract, retr, graph, writers, issue>>

RemoveMemoryDir ==
    /\ gate = NoGate
    /\ edits < MaxEdits
    /\ memory.exists
    /\ memory' = [exists |-> FALSE, files |-> [f \in MemoryFiles |-> NoFile]]
    /\ edits' = edits + 1
    /\ UNCHANGED <<repo, gate, logVars, embed, extract, retr, graph, writers, issue>>

\* python scripts/validate_memory.py --memory-dir .memory --repo-root .
RunGate ==
    /\ gate = NoGate
    /\ gate' = main(memory, repo)
    /\ UNCHANGED <<repo, memory, edits, logVars, embed, extract, retr, graph, writers, issue>>

----------------------------------------------------------------------------
(* The embedding pipeline (embedding_engine.py)                            *)
(*                                                                         *)
(* The text of a file is the sequence of its lines, a line the record of   *)
(* its words and of its length in characters, newline included; a chunk is *)
(* the sequence of the lines joined into it.                               *)

CHUNK_CHARS == 512 * 4

RECURSIVE SumLen(_)
SumLen(lines) ==
    IF lines = <<>> THEN 0 ELSE Head(lines).len + SumLen(Tail(lines))

\* the loop of _chunk_text from line i on: a chunk is cut when the lines
\* gathered reach chunk_chars, and the last fifth of them (one line at
\* least) opens the next chunk
RECURSIVE chunk_lines(_, _, _, _, _)
chunk_lines(lines, i, current, chunks, chunk_chars) ==
    IF i > Len(lines)
    THEN IF current # <<>> THEN Append(chunks, current) ELSE chunks
    ELSE LET grown == Append(current, lines[i])
             fifth == Len(grown) \div 5
             overlap_cutoff == Len(grown) - (IF fifth > 1 THEN fifth ELSE 1)
         IN  IF SumLen(grown) >= chunk_chars
             THEN chunk_lines(lines, i + 1,
                      SubSeq(grown, overlap_cutoff + 1, Len(grown)),
                      Append(chunks, grown), chunk_chars)
             ELSE chunk_lines(lines, i + 1, grown, chunks, chunk_chars)

\* a text without lines is blank; every line of the other texts has words
_chunk_text(text) ==
    IF text = <<>> THEN <<>>
    ELSE chunk_lines(text, 1, <<>>, <<>>, CHUNK_CHARS)

\* model.encode followed by the rounding to six decimals: the embedding
\* function is a function of the chunk, which raises on the chunks of
\* faults.raises and yields a short vector on those of faults.short
encode(chunk, faults) ==
    IF chunk \in faults.raises THEN [raised |-> TRUE]
    ELSE [raised |-> FALSE,
          embedding |-> Vector(IF chunk \in faults.short
                               THEN EMBEDDING_DIM - 1 ELSE EMBEDDING_DIM,
                               chunk)]

\* (hash_lookup, records), or AttributeError when the JSON is a list or
\* its "embeddings" is not a list of objects
_load_existing_embeddings(file) ==
    LET fresh == [raised |-> FALSE, hash_lookup |-> <<>>, records |-> <<>>]
        data == file.data
        records == Get(data, "embeddings", List(<<>>))
        paths == {Get(records.items[i], "file_path", <<>>) :
                    i \in 1..Len(records.items)} \ {<<>>}
        first(fp) == CHOOSE i \in 1..Len(records.items) :
                        /\ Get(records.items[i], "file_path", <<>>) = fp
                        /\ \A j \in 1..(i - 1) :
                            Get(records.items[j], "file_path", <<>>) # fp
    IN  IF file.kind \in {"absent", "garbled"} THEN fresh
        ELSE IF file.kind = "array" THEN [fresh EXCEPT !.raised = TRUE]
        ELSE IF \/ Get(data, "model_name", None) # EMBEDDING_MODEL_NAME
                \/ Get(data, "model_version", None) # EMBEDDING_MODEL_VERSION
        THEN fresh
        ELSE IF records.json # "list" THEN [fresh EXCEPT !.raised = TRUE]
        ELSE [raised |-> FALSE,
              hash_lookup |-> [fp \in paths |->
                                Get(records.items[first(fp)], "hash", <<>>)],
              records |-> records.items]

RECURSIVE Flatten(_)
Flatten(seqs) ==
    IF seqs = <<>> THEN <<>> ELSE Head(seqs) \o Flatten(Tail(seqs))

embed_chunks_mut_abort(rel_path, tree, faults) ==
    LET chunks == _chunk_text(tree[rel_path])
        result(i) == encode(chunks[i], faults)
        made(i) == \A j \in 1..i :
                    /\ ~result(j).raised
                    /\ result(j).embedding.dim = EMBEDDING_DIM
        indices == SelectSeq([i \in 1..Len(chunks) |-> i], made)
    IN  [k \in 1..Len(indices) |->
            [file_path |-> rel_path,
             hash |-> _sha256_file(tree[rel_path]),
             chunk_index |-> indices[k] - 1,
             total_chunks |-> Len(chunks),
             embedding |-> result(indices[k]).embedding]]

\* the records appended for one file to embed: one per chunk whose vector
\* was obtained and has EMBEDDING_DIM entries
embed_chunks(rel_path, tree, faults) ==
    LET chunks == _chunk_text(tree[rel_path])
        result(i) == encode(chunks[i], faults)
        made(i) == /\ ~result(i).raised
                   /\ result(i).embedding.dim = EMBEDDING_DIM
        indices == SelectSeq([i \in 1..Len(chunks) |-> i], made)
    IN  [k \in 1..Len(indices) |->
            [file_path |-> rel_path,
             hash |-> _sha256_file(tree[rel_path]),
             chunk_index |-> indices[k] - 1,
             total_chunks |-> Len(chunks),
             embedding |-> result(indices[k]).embedding]]

skipped_mut_ignore_hash(rel_path, current_hash, existing_hashes, changed_only) ==
    /\ changed_only # {}
    /\ rel_path \notin changed_only
    /\ rel_path \in DOMAIN existing_hashes

\* whether the loop over the candidate files passes a file by: in
\* changed-files mode when it is not listed and has records, and in either
\* mode when its recorded hash is its current one
skipped(rel_path, current_hash, existing_hashes, changed_only) ==
    \/ /\ changed_only # {}
       /\ rel_path \notin changed_only
       /\ rel_path \in DOMAIN existing_hashes
    \/ /\ rel_path \in DOMAIN existing_hashes
       /\ existing_hashes[rel_path] = current_hash

\* _embed_files: the updated list of records, and the (path, chunk index)
\* pairs model.encode was called for
_embed_files(file_paths, tree, existing_hashes, existing_records, changed_only, faults) ==
    LET stale(p) == ~skipped(p, _sha256_file(tree[p]), existing_hashes,
                             changed_only)
        to_embed == SelectSeq(file_paths, stale)
        kept(r) == r.file_path \notin Range(to_embed)
    IN  IF to_embed = <<>>
        THEN [records |-> existing_records, calls |-> {}]
        ELSE [records |->
                SelectSeq(existing_records, kept)
                \o Flatten([k \in 1..Len(to_embed) |->
                                embed_chunks(to_embed[k], tree, faults)]),
              calls |->
                UNION {{<<p, i - 1>> : i \in 1..Len(_chunk_text(tree[p]))} :
                            p \in Range(to_embed)}]

\* os.walk lists the tree in one fixed order
WalkOrder == <<MAIN_TF, README, A_PY>>

IsDoc(path) == path = README

_collect_files(tree, docs) ==
    LET wanted(p) == isfile(tree, p) /\ (IsDoc(p) <=> docs)
    IN  SelectSeq(WalkOrder, wanted)

\* the envelope written, or "exit" when validate_embeddings rejects it; a
\* record takes about 4 KB on disk
_write_embedding_file(records, generated_at) ==
    LET envelope == [schema_version |-> SCHEMA_VERSION,
                     model_name |-> EMBEDDING_MODEL_NAME,
                     model_version |-> EMBEDDING_MODEL_VERSION,
                     generated_at |-> generated_at,
                     embeddings |-> List(records)]
    IN  IF validate_embeddings(envelope)
        THEN [ObjectFile(envelope) EXCEPT !.size = 4096 * (1 + Len(records))]
        ELSE [NoFile EXCEPT !.kind = "exit"]

\* one artifact of main: load, collect, embed, prune, write
embed_corpus(file, tree, docs, changed_only, faults, generated_at) ==
    LET existing == _load_existing_embeddings(file)
        updated == _embed_files(_collect_files(tree, docs), tree,
                                existing.hash_lookup, existing.records,
                                changed_only, faults)
        present(r) == isfile(tree, r.file_path)
        written == _write_embedding_file(SelectSeq(updated.records, present),
                                         generated_at)
    IN  IF existing.raised
        THEN [status |-> "raised", file |-> file, calls |-> {}]
        ELSE IF written.kind = "exit"
        THEN [status |-> "exit", file |-> file, calls |-> updated.calls]
        ELSE [status |-> "written", file |-> written, calls |-> updated.calls]

\* the texts of the files the pipeline is run on: of one chunk, of two
Short == <<[words |-> "locals", len |-> 100]>>

Long == <<[words |-> "import ray", len |-> 1500],
          [words |-> "def main", len |-> 1500]>>

Texts == {Short, Long}

NoFaults == [raises |-> {}, short |-> {}]

\* the behaviours of the embedding function over a run
Faults ==
    {NoFaults,
     [NoFaults EXCEPT !.raises = {_chunk_text(Long)[2], Short}],
     [NoFaults EXCEPT !.short = {_chunk_text(Long)[1]}]}

\* values of --changed-files; the empty set is the full mode
ChangedFiles == {{}, {MAIN_TF}}

\* file_embeddings.json as a build with another model version left it
OtherModelFile ==
    WithData(EmbeddingsFile(embed_chunks(A_PY, [p \in RepoPaths |-> Long],
                                         NoFaults)),
             "model_version", "0.0.9")

\* file_embeddings.json before the first run: not there, a JSON list, made
\* with another model, or made when src/a.py held another text
EmbeddingStates ==
    {NoFile, NoObject("array"), OtherModelFile,
     EmbeddingsFile(embed_chunks(A_PY, [p \in RepoPaths |-> Short], NoFaults))}

NoRun ==
    [runs |-> 0, status |-> "none", changed_only |-> {}, faults |-> NoFaults,
     tree |-> <<>>, again |-> FALSE,
     calls |-> [f \in _CODE_EMBEDDING_FILES |-> {}]]

EmbedIdle == embed = NoRun

\* python scripts/embedding_engine.py [--changed-files ...]: main.  The
\* record of the run keeps its arguments, the tree it ran on, the calls of
\* model.encode per artifact, and whether it repeats the run before it: same
\* tree, same arguments, same embedding function, both run to the end.
EmbedRun(changed_only, faults) ==
    LET code == embed_corpus(memory.files["file_embeddings"], repo, FALSE,
                             changed_only, faults, now)
        docs == embed_corpus(memory.files["doc_embeddings"], repo, TRUE,
                             changed_only, faults, now)
        ended == IF code.status # "written" THEN code.status
                 ELSE IF docs.status # "written" THEN docs.status
                 ELSE "done"
    IN  /\ embed.runs < MaxRuns
        /\ memory.exists
        /\ memory' = [memory EXCEPT
                !.files["file_embeddings"] = code.file,
                !.files["doc_embeddings"] =
                    IF code.status = "written" THEN docs.file ELSE @]
        /\ embed' = [runs |-> embed.runs + 1, status |-> ended,
                     changed_only |-> changed_only, faults |-> faults,
                     tree |-> repo,
                     again |-> /\ embed.status = "done" /\ ended = "done"
                               /\ embed.tree = repo
                               /\ embed.changed_only = changed_only
                               /\ embed.faults = faults,
                     calls |-> [file_embeddings |-> code.calls,
                                doc_embeddings |->
                                    IF code.status = "written"
                                    THEN docs.calls ELSE {}]]
        /\ UNCHANGED <<repo, edits, gate, logVars, extract, retr, graph, writers, issue>>

Tick ==
    /\ now < MaxNow
    /\ now' = now + 1
    /\ UNCHANGED <<logFile, calls, lastCall, gateVars, embed, extract, retr, graph, writers, issue>>
----------------------------------------------------------------------------
(* The decision extractor (decision_extractor.py)                          *)
(*                                                                         *)
(* A text is a sequence of pieces: "s" its characters, "n" their number,   *)
(* "tok" whether they are all of [A-Za-z0-9+/=].  A piece that is not a    *)
(* token holds no run of 32 such characters and is set off from its        *)
(* neighbours by a character outside the class; no two tokens are          *)
(* adjacent.  A source file is the record of what the extractor reads in   *)
(* it: the matches of _TAG_PATTERN with their line numbers, and its        *)
(* paragraphs.  A source locator is the record of a path and a line, the   *)
(* line 0 where the locator has none.                                      *)

_SECRET_MIN == 32

\* _SECRET_RE.sub("[REDACTED]", text)
_scrub_secrets(text) ==
    LET redacted == <<[s |-> "[", n |-> 1, tok |-> FALSE],
                      [s |-> "REDACTED", n |-> 8, tok |-> TRUE],
                      [s |-> "]", n |-> 1, tok |-> FALSE]>>
    IN  Flatten([i \in 1..Len(text) |->
                    IF text[i].tok /\ text[i].n >= _SECRET_MIN
                    THEN redacted ELSE <<text[i]>>])

A1451_PY == <<"a1451.py">>
B16939_PY == <<"d", "b16939.py">>
ADR_MD == <<"docs", "ADR-001.md">>

\* hashlib.sha256(f"{tag_type}:{source}:{index}".encode()).hexdigest()[:8]
\* .upper(), for the paths above written with "/" and index in 0..4
Sha256Prefix8(tag_type, source, index) ==
    CASE tag_type = "ARCH_DECISION" /\ source = A1451_PY ->
            <<"04592F54", "ADFCFC64", "D9F1F96E", "76E0E52C", "F8A20645">>[index + 1]
      [] tag_type = "ARCH_DECISION" /\ source = B16939_PY ->
            <<"7D017201", "04592F54", "8E97C226", "195BBD73", "D15135C2">>[index + 1]
      [] tag_type = "ARCH_DECISION" /\ source = ADR_MD ->
            <<"6F1895C4", "2DE4C846", "2A6F4B9D", "CED8D51F", "97FA64F5">>[index + 1]
      [] tag_type = "ARCH_DECISION" /\ source = <<"pr", "7">> ->
            <<"7FFC4105", "121A02C0", "80458000", "D5F57212", "9B6074A9">>[index + 1]
      [] tag_type = "SECURITY_BOUNDARY" /\ source = A1451_PY ->
            <<"B7F11674", "1CF4F878", "9DAC6365", "D8DA2930", "CD9CC8FD">>[index + 1]
      [] tag_type = "SECURITY_BOUNDARY" /\ source = B16939_PY ->
            <<"CC2BFF09", "79A33156", "95244D53", "82F3557D", "A9F06918">>[index + 1]
      [] tag_type = "SECURITY_BOUNDARY" /\ source = ADR_MD ->
            <<"A9C48E3F", "68C399D2", "67996BA0", "B7FCDD19", "ED2C2358">>[index + 1]
      [] tag_type = "SECURITY_BOUNDARY" /\ source = <<"pr", "7">> ->
            <<"BCB0E181", "90AAA5A6", "9B881D64", "1E52B622", "82E2247E">>[index + 1]
      [] tag_type = "PERFORMANCE_CONSTRAINT" /\ source = A1451_PY ->
            <<"F691B919", "187F0F50", "2FDADA50", "1CA1A29D", "CF395E52">>[index + 1]
      [] tag_type = "PERFORMANCE_CONSTRAINT" /\ source = B16939_PY ->
            <<"3311D5A1", "9F978EFF", "98C8251C", "4943304F", "79ABEEE6">>[index + 1]
      [] tag_type = "PERFORMANCE_CONSTRAINT" /\ source = ADR_MD ->
            <<"2F522B88", "EA8E619C", "E85A0094", "9FCA90A3", "418B469D">>[index + 1]
      [] tag_type = "PERFORMANCE_CONSTRAINT" /\ source = <<"pr", "7">> ->
            <<"55457AEB", "77B9E01C", "51377E34", "A48D80F0", "F8242CEF">>[index + 1]
      [] tag_type = "ADR" /\ source = ADR_MD ->
            <<"4FB4EBB0", "4E99A68F", "931E02F6", "0AEAD17C", "CEB2CAB5">>[index + 1]

_decision_id(tag_type, source, index) ==
    LET prefix == CASE tag_type = "ARCH_DECISION" -> "ARCH"
                    [] tag_type = "SECURITY_BOUNDARY" -> "SEC"
                    [] tag_type = "PERFORMANCE_CONSTRAINT" -> "PERF"
                    [] tag_type = "PR_DECISION" -> "PR"
                    [] tag_type = "ADR" -> "ADR"
                    [] OTHER -> "DEC"
    IN  prefix \o "-" \o Sha256Prefix8(tag_type, source, index)

\* the decisions of the matches of _TAG_PATTERN in one file; the pattern
\* matches the three inline tag types only
extract_inline_tags(rel_path, content) ==
    [i \in 1..Len(content.tags) |->
        [type |-> content.tags[i].type,
         context |-> _scrub_secrets(content.tags[i].context),
         source |-> [path |-> rel_path, line |-> content.tags[i].line],
         related_files |-> List(<<rel_path>>)]]

\* the decision of the ADR document of the tree, a markdown file named
\* ADR* in docs/: its second paragraph, or its first, or its title, cut to
\* 500 characters and scrubbed
extract_adr_files(tree) ==
    LET RECURSIVE Truncate(_, _)
        Truncate(text, limit) ==
            IF text = <<>> \/ limit <= 0 THEN <<>>
            ELSE IF Head(text).n > limit
            THEN <<[Head(text) EXCEPT !.n = limit]>>
            ELSE <<Head(text)>>
                 \o Truncate(Tail(text), limit - Head(text).n)
        paragraphs == tree[ADR_MD].paragraphs
        context_text == IF Len(paragraphs) > 1 THEN paragraphs[2]
                        ELSE IF Len(paragraphs) > 0 THEN paragraphs[1]
                        ELSE tree[ADR_MD].title
    IN  IF ~isfile(tree, ADR_MD) THEN <<>>
        ELSE <<[type |-> "ADR",
                context |-> _scrub_secrets(Truncate(context_text, 500)),
                source |-> [path |-> ADR_MD, line |-> 0],
                related_files |-> List(<<ADR_MD>>)]>>

\* the type is the tag's: "PR_DECISION" would be given to a match of
\* another tag, and _TAG_PATTERN has none
extract_pr_decisions(pr_number, pr_body) ==
    [i \in 1..Len(pr_body) |->
        [type |-> IF pr_body[i].type \notin {"ARCH_DECISION",
                        "SECURITY_BOUNDARY", "PERFORMANCE_CONSTRAINT"}
                  THEN "PR_DECISION" ELSE pr_body[i].type,
         context |-> _scrub_secrets(pr_body[i].context),
         source |-> [path |-> <<"pr", pr_number>>, line |-> 0],
         related_files |-> List(<<>>),
         pr_number |-> pr_number]]

\* the "decisions" list of the log on disk, [] when there is none to read;
\* AttributeError when the JSON is a list
load_existing_decisions(file) ==
    LET none == [raised |-> FALSE, decisions |-> <<>>]
    IN  IF file.kind \in {"absent", "garbled"} THEN none
        ELSE IF file.kind = "array" THEN [none EXCEPT !.raised = TRUE]
        ELSE IF Get(file.data, "decisions", [json |-> "str"]).json # "list"
        THEN none
        ELSE [none EXCEPT !.decisions = file.data.decisions.items]

deduplicate_decisions_mut_first_wins(decisions) ==
    LET did(i) == Get(decisions[i], "decision_id", "")
        first(i) == did(i) # "" /\ \A j \in 1..(i - 1) : did(j) # did(i)
        firsts == SelectSeq([i \in 1..Len(decisions) |-> i], first)
    IN  [k \in 1..Len(firsts) |-> decisions[firsts[k]]]

\* the values of the dict "seen": one record per non-empty id, in the order
\* the ids first occur, each the last record of its id
deduplicate_decisions(decisions) ==
    LET did(i) == Get(decisions[i], "decision_id", "")
        first(i) == did(i) # "" /\ \A j \in 1..(i - 1) : did(j) # did(i)
        firsts == SelectSeq([i \in 1..Len(decisions) |-> i], first)
        last(i) == CHOOSE j \in 1..Len(decisions) :
                        /\ did(j) = did(i)
                        /\ \A k \in (j + 1)..Len(decisions) : did(k) # did(i)
    IN  [k \in 1..Len(firsts) |-> decisions[last(firsts[k])]]

\* os.walk lists the files of the root before those of its directories
ScanOrder == <<A1451_PY, B16939_PY, ADR_MD>>

\* main of decision_extractor.py: scan, number, merge with the PR decisions
\* of the log on disk, deduplicate, sort, validate, write.  "found" keeps
\* what _decision_id was given for each new decision.
decision_extractor_main(file, tree, pr_number, pr_body, timestamp) ==
    LET existing == load_existing_decisions(file)
        tags(k) == IF isfile(tree, ScanOrder[k])
                   THEN extract_inline_tags(ScanOrder[k], tree[ScanOrder[k]])
                   ELSE <<>>
        found == Flatten([k \in 1..Len(ScanOrder) |-> tags(k)])
                 \o extract_adr_files(tree)
                 \o (IF pr_number # "0" /\ pr_body # <<>>
                     THEN extract_pr_decisions(pr_number, pr_body) ELSE <<>>)
        new_decisions ==
            [i \in 1..Len(found) |->
                [decision_id |-> _decision_id(found[i].type,
                                              found[i].source.path, i - 1),
                 timestamp |-> timestamp] @@ found[i]]
        from_pr(d) ==
            LET path == Get(d, "source", [path |-> <<>>]).path
            IN  /\ Get(d, "type", None) = "PR_DECISION"
                /\ Len(path) >= 2
                /\ path[1] = "pr"
        historical_pr_decisions == SelectSeq(existing.decisions, from_pr)
        \* d["decision_id"] of a record without the key
        key_error == /\ new_decisions # <<>>
                     /\ \E d \in Range(historical_pr_decisions) :
                            "decision_id" \notin DOMAIN d
        unseen(d) == \A n \in Range(new_decisions) :
                        n.decision_id # d.decision_id
        merged == new_decisions \o SelectSeq(historical_pr_decisions, unseen)
        deduped == deduplicate_decisions(merged)
        \* list.sort(key=timestamp, reverse=True): stable, newest first
        RECURSIVE sorted(_)
        sorted(decisions) ==
            IF decisions = <<>> THEN <<>>
            ELSE LET d == decisions[Len(decisions)]
                     rest == sorted(SubSeq(decisions, 1, Len(decisions) - 1))
                     before(r) == Get(r, "timestamp", -1)
                                    >= Get(d, "timestamp", -1)
                     after(r) == ~before(r)
                 IN  SelectSeq(rest, before) \o <<d>> \o SelectSeq(rest, after)
        decision_log == [schema_version |-> SCHEMA_VERSION,
                         decisions |-> List(sorted(deduped))]
        run == [status |-> "raised", file |-> file, found |-> <<>>,
                new_decisions |-> <<>>, merged |-> <<>>, deduped |-> <<>>]
    IN  IF existing.raised \/ key_error THEN run
        ELSE IF ~validate_decision_log(decision_log)
        THEN [run EXCEPT !.status = "exit"]
        ELSE [status |-> "written", file |-> ObjectFile(decision_log),
              found |-> [i \in 1..Len(found) |->
                            <<found[i].type, found[i].source.path, i - 1>>],
              new_decisions |-> new_decisions, merged |-> merged,
              deduped |-> deduped]

\* texts: without a token, with a token of 36 characters, with tokens of 31
\* and of 32, and a paragraph whose token of 40 begins at character 481
Contexts ==
    [plain |-> <<[s |-> "keep it simple", n |-> 14, tok |-> FALSE]>>,
     secret |-> <<[s |-> "token ghp_", n |-> 10, tok |-> FALSE],
                  [s |-> "abcdefghijklmnopqrstuvwxyz0123456789", n |-> 36,
                   tok |-> TRUE]>>,
     edge |-> <<[s |-> "a...", n |-> 31, tok |-> TRUE],
                [s |-> " / ", n |-> 3, tok |-> FALSE],
                [s |-> "b...", n |-> 32, tok |-> TRUE]>>,
     long |-> <<[s |-> "We decided ... key: ", n |-> 480, tok |-> FALSE],
                [s |-> "AKIA...", n |-> 40, tok |-> TRUE]>>]

\* the contents a file of the tree takes: the matches of _TAG_PATTERN in
\* it, its title and its paragraphs
SourceFiles(path) ==
    LET file == [tags |-> <<>>, title |-> Contexts.plain, paragraphs |-> <<>>]
        arch == [line |-> 1, type |-> "ARCH_DECISION",
                 context |-> Contexts.plain]
    IN  CASE path = A1451_PY ->
                {[file EXCEPT !.tags = <<arch>>],
                 [file EXCEPT !.tags =
                    <<[line |-> 1, type |-> "SECURITY_BOUNDARY",
                       context |-> Contexts.secret],
                      [line |-> 4, type |-> "PERFORMANCE_CONSTRAINT",
                       context |-> Contexts.edge]>>]}
          [] path = B16939_PY ->
                {[file EXCEPT !.tags =
                    <<[arch EXCEPT !.line = 2, !.context = Contexts.edge]>>]}
          [] path = ADR_MD ->
                {[file EXCEPT !.paragraphs = <<Contexts.plain, Contexts.long>>],
                 [file EXCEPT !.paragraphs = <<Contexts.secret>>]}

\* decision_log.json before the first run: not there, a JSON list, with PR
\* decisions no scan made, of the same id, or with a token in the context
\* of one and an empty id on the other
DecisionLogs ==
    LET pr_1 == [decision_id |-> "PR-1", type |-> "PR_DECISION",
                 context |-> Contexts.plain,
                 source |-> [path |-> <<"pr", "3">>, line |-> 0],
                 timestamp |-> 1, related_files |-> List(<<>>)]
        log(decisions) == ObjectFile([schema_version |-> SCHEMA_VERSION,
                                      decisions |-> List(decisions)])
    IN  {NoFile, NoObject("array"),
         log(<<pr_1, [pr_1 EXCEPT !.context = Contexts.edge,
                                  !.timestamp = 0]>>),
         log(<<[pr_1 EXCEPT !.decision_id = "PR-2",
                            !.context = Contexts.secret],
               [pr_1 EXCEPT !.decision_id = ""]>>)}

NoExtract ==
    [runs |-> 0, status |-> "none", pr_number |-> "0", found |-> <<>>,
     new_decisions |-> <<>>, merged |-> <<>>, deduped |-> <<>>]

\* python scripts/decision_extractor.py [--pr-number N --pr-body TEXT]
ExtractRun(pr_number, pr_body) ==
    LET run == decision_extractor_main(memory.files["decision_log"], repo,
                                       pr_number, pr_body, now)
    IN  /\ extract.runs < MaxRuns
        /\ memory' = [memory EXCEPT !.files["decision_log"] = run.file]
        /\ extract' = [runs |-> extract.runs + 1, status |-> run.status,
                       pr_number |-> pr_number, found |-> run.found,
                       new_decisions |-> run.new_decisions,
                       merged |-> run.merged, deduped |-> run.deduped]
        /\ UNCHANGED <<repo, edits, gate, logVars, embed, retr, graph, writers, issue>>

----------------------------------------------------------------------------
(* The memory retriever (scripts/memory_retriever.py).                     *)
(*                                                                         *)
(* The retriever computes with the numbers of an embedding, so here an     *)
(* embedding is [e |-> exponent, v |-> mantissas]: the list of the floats  *)
(* v[i] * 10^e.  The mantissas are integers below 100 in absolute value    *)
(* whose squares sum to a perfect square, so that math.sqrt is exact on    *)
(* every magnitude the model forms.  A double holds no positive number     *)
(* below 4.9e-324 and none above 1.8e308: m * 10^x is 0.0 for x <= -326    *)
(* and plus or minus infinity for x >= 309 when 0 < |m| < 100.  Exponents  *)
(* between those limits and the finite range are not used.                 *)
(*                                                                         *)
(* Scores and weights are numbers of [-1, 1] in units of 10^-6, as         *)
(* confidences are.  Times are counted in half-lives                       *)
(* (_RECENCY_HALF_LIFE_SECONDS) since the epoch.  File paths, whose        *)
(* prefixes and suffixes the filters inspect, are sequences of             *)
(* one-character strings.                                                  *)
(*                                                                         *)
(* A retriever caches what it loads (_corpora, _arch_paths,                *)
(* _exec_weights); the memory directory does not change during a query,    *)
(* so a query is modelled on a fresh retriever.                            *)

\* accumulate(terms, e) is the float that the loop makes of the sum of the
\* floats terms[i] * 10^e: c says whether it is finite ("fin", and then it
\* is m * 10^e), infinite ("inf", "-inf") or not a number ("nan")
cosine_similarity(a, b) ==
    LET n == Len(a.v)
        accumulate(terms, e) ==
            LET sum[i \in 0..n] == IF i = 0 THEN 0 ELSE sum[i - 1] + terms[i]
                pos == \E i \in 1..n : terms[i] > 0
                neg == \E i \in 1..n : terms[i] < 0
            IN  IF e <= -326 \/ (~pos /\ ~neg) THEN [c |-> "fin", m |-> 0]
                ELSE IF e < 309 THEN [c |-> "fin", m |-> sum[n]]
                ELSE IF pos /\ neg THEN [c |-> "nan", m |-> 0]
                ELSE IF pos THEN [c |-> "inf", m |-> 0]
                ELSE [c |-> "-inf", m |-> 0]
        sqrt(x) == IF x.c = "fin"
                   THEN [x EXCEPT !.m = CHOOSE r \in 0..x.m : r * r = x.m]
                   ELSE x
        zero(x) == x.c = "fin" /\ x.m = 0
        \* mag_a * mag_b of the square roots x and y
        denominator(x, y) ==
            IF (zero(x) /\ y.c = "inf") \/ (x.c = "inf" /\ zero(y))
            THEN [c |-> "nan", m |-> 0]
            ELSE IF zero(x) \/ zero(y) THEN [c |-> "fin", m |-> 0]
            ELSE IF x.c = "inf" \/ y.c = "inf" THEN [c |-> "inf", m |-> 0]
            ELSE [c |-> "fin", m |-> x.m * y.m]
        float(value) == [nan |-> FALSE, value |-> value]
        \* 0.0 if denom == 0.0, else dot / denom
        quotient(dot, denom) ==
            IF zero(denom) THEN float(0)
            ELSE IF denom.c = "nan" THEN [nan |-> TRUE, value |-> 0]
            ELSE IF denom.c = "inf"
            THEN IF dot.c = "fin" THEN float(0)
                 ELSE [nan |-> TRUE, value |-> 0]
            ELSE float((dot.m * CONFIDENCE_ONE) \div denom.m)
    IN  IF Len(a.v) # Len(b.v) THEN float(0)
        ELSE quotient(
                accumulate([i \in 1..n |-> a.v[i] * b.v[i]], a.e + b.e),
                denominator(
                    sqrt(accumulate([i \in 1..n |-> a.v[i] * a.v[i]], 2 * a.e)),
                    sqrt(accumulate([i \in 1..n |-> b.v[i] * b.v[i]], 2 * b.e))))

_recency_weight_mut_zero_prior(record_timestamp_or_hash, now_posix) ==
    IF /\ record_timestamp_or_hash.iso
       /\ record_timestamp_or_hash.posix > 0
       /\ now_posix > 0
    THEN LET delta == IF now_posix > record_timestamp_or_hash.posix
                      THEN now_posix - record_timestamp_or_hash.posix
                      ELSE 0
         IN  CONFIDENCE_ONE \div (2 ^ delta)
    ELSE 0

\* a hash field is [iso, posix]: iso says that the text has 20 characters
\* and a "T" among them, posix is what _parse_iso makes of it (0 when it
\* does not parse)
_recency_weight(record_timestamp_or_hash, now_posix) ==
    IF /\ record_timestamp_or_hash.iso
       /\ record_timestamp_or_hash.posix > 0
       /\ now_posix > 0
    THEN LET delta == IF now_posix > record_timestamp_or_hash.posix
                      THEN now_posix - record_timestamp_or_hash.posix
                      ELSE 0
         IN  CONFIDENCE_ONE \div (2 ^ delta)
    ELSE CONFIDENCE_ONE \div 2

\* the records of the corpus in the reverse of the file's order
_load_corpus_mut_reversed(files, source_type) ==
    LET name == source_type \o "_embeddings"
        records == IF name \in DOMAIN files /\ files[name].kind = "object"
                   THEN Get(files[name].data, "embeddings", List(<<>>)).items
                   ELSE <<>>
    IN  [raised |-> name \in DOMAIN files /\ files[name].kind = "array",
         records |-> [i \in 1..Len(records) |->
                        records[Len(records) + 1 - i]]]

\* the records of one corpus; a source type outside EMBEDDING_FILES, a
\* missing file and a file that is not JSON give none, a JSON list has no
\* get
_load_corpus(files, source_type) ==
    LET name == source_type \o "_embeddings"
    IN  IF name \notin DOMAIN files THEN [raised |-> FALSE, records |-> <<>>]
        ELSE IF files[name].kind \in {"absent", "garbled"}
        THEN [raised |-> FALSE, records |-> <<>>]
        ELSE IF files[name].kind = "array"
        THEN [raised |-> TRUE, records |-> <<>>]
        ELSE [raised |-> FALSE,
              records |-> Get(files[name].data, "embeddings", List(<<>>)).items]

_passes_filters_mut_no_module(record, file_type, module, after_date) ==
    LET path == Get(record, "file_path", <<>>)
        endswith(s, e) ==
            /\ Len(s) >= Len(e)
            /\ SubSeq(s, Len(s) - Len(e) + 1, Len(s)) = e
        expected_ext ==
            CASE file_type = "python" -> {<<".", "p", "y">>}
              [] file_type = "terraform" -> {<<".", "t", "f">>}
              [] file_type = "rego" -> {<<".", "r", "e", "g", "o">>}
              [] file_type = "yaml" ->
                    {<<".", "y", "m", "l">>, <<".", "y", "a", "m", "l">>}
              [] file_type = "markdown" -> {<<".", "m", "d">>}
              [] file_type = "shell" -> {<<".", "s", "h">>}
              [] OTHER -> {}
    IN  expected_ext # {} => \E e \in expected_ext : endswith(path, e)

\* file_type is None or a name, module <<>> (None or "") or a prefix;
\* after_date is not looked at
_passes_filters(record, file_type, module, after_date) ==
    LET path == Get(record, "file_path", <<>>)
        endswith(s, e) ==
            /\ Len(s) >= Len(e)
            /\ SubSeq(s, Len(s) - Len(e) + 1, Len(s)) = e
        expected_ext ==
            CASE file_type = "python" -> {<<".", "p", "y">>}
              [] file_type = "terraform" -> {<<".", "t", "f">>}
              [] file_type = "rego" -> {<<".", "r", "e", "g", "o">>}
              [] file_type = "yaml" ->
                    {<<".", "y", "m", "l">>, <<".", "y", "a", "m", "l">>}
              [] file_type = "markdown" -> {<<".", "m", "d">>}
              [] file_type = "shell" -> {<<".", "s", "h">>}
              [] OTHER -> {}
    IN  /\ expected_ext # {} => \E e \in expected_ext : endswith(path, e)
        /\ module # <<>> => startswith(path, module)

\* context_files(run): the "file:" references of a run of the execution
\* log, without the prefix (a context id is a sequence of one-character
\* strings); a JSON list in place of either log has no get
_load_architecturally_relevant_paths(files) ==
    LET decisions ==
            IF files["decision_log"].kind = "object"
            THEN Get(files["decision_log"].data, "decisions", List(<<>>)).items
            ELSE <<>>
        runs ==
            IF files["execution_log"].kind = "object"
            THEN Get(files["execution_log"].data, "runs", List(<<>>)).items
            ELSE <<>>
        context_files(run) ==
            LET ids == SelectSeq(Get(run, "retrieved_context_ids", <<>>),
                         LAMBDA ctx_id :
                            startswith(ctx_id, <<"f", "i", "l", "e", ":">>))
            IN  {SubSeq(ids[i], 6, Len(ids[i])) : i \in 1..Len(ids)}
    IN  [raised |-> \E f \in {"decision_log", "execution_log"} :
                        files[f].kind = "array",
         paths |->
            UNION {Range(Get(decisions[i], "related_files", List(<<>>)).items) :
                        i \in 1..Len(decisions)}
            \cup UNION {context_files(runs[i]) : i \in 1..Len(runs)}]

_load_execution_success_weights(files) ==
    LET runs ==
            IF files["execution_log"].kind = "object"
            THEN Get(files["execution_log"].data, "runs", List(<<>>)).items
            ELSE <<>>
        context_files(run) ==
            LET ids == SelectSeq(Get(run, "retrieved_context_ids", <<>>),
                         LAMBDA ctx_id :
                            startswith(ctx_id, <<"f", "i", "l", "e", ":">>))
            IN  [i \in 1..Len(ids) |-> SubSeq(ids[i], 6, Len(ids[i]))]
        uses(file_path, counted(_)) ==
            Len(Flatten([i \in 1..Len(runs) |->
                    IF counted(runs[i])
                    THEN SelectSeq(context_files(runs[i]),
                                   LAMBDA p : p = file_path)
                    ELSE <<>>]))
        total_uses(file_path) == uses(file_path, LAMBDA run : TRUE)
        success_uses(file_path) ==
            uses(file_path, LAMBDA run : Get(run, "outcome", "") = "success")
    IN  [raised |-> files["execution_log"].kind = "array",
         weights |->
            [file_path \in UNION {Range(context_files(runs[i])) :
                                    i \in 1..Len(runs)} |->
                (success_uses(file_path) * CONFIDENCE_ONE)
                    \div total_uses(file_path)]]

\* MemoryRetriever(memory_dir).top_k(query_embedding, **kwargs) with the
\* clock at now_posix; kwargs holds the keyword arguments that are given.
\* The queries of the model give no score that is NaN.
top_k(files, query_embedding, kwargs, now_posix) ==
    LET k == Get(kwargs, "k", 10)
        file_type == Get(kwargs, "file_type", None)
        module == Get(kwargs, "module", <<>>)
        after_date == Get(kwargs, "after_date", 0)
        source_types ==
            Get(kwargs, "source_types", <<"file", "doc", "issue", "pr">>)
        use_weighted_scoring == Get(kwargs, "use_weighted_scoring", TRUE)
        arch_relevant_paths == _load_architecturally_relevant_paths(files)
        execution_weights == _load_execution_success_weights(files)
        weighted(rec, stype, file_path, semantic, recency, exec_success,
                 arch_rel) ==
            [file_path |-> file_path,
             score |-> IF use_weighted_scoring
                       THEN (6 * semantic + 2 * recency + exec_success
                                + arch_rel) \div 10
                       ELSE semantic,
             chunk_index |-> Get(rec, "chunk_index", 0),
             total_chunks |-> Get(rec, "total_chunks", 1),
             source_type |-> stype,
             metadata |->
                IF use_weighted_scoring
                THEN [semantic |-> semantic,
                      recency |-> round4(recency),
                      exec_success |-> round4(exec_success),
                      arch_relevance |-> arch_rel]
                ELSE <<>>]
        of_path(rec, stype, file_path) ==
            weighted(rec, stype, file_path,
                cosine_similarity(query_embedding, rec.embedding).value,
                _recency_weight(Get(rec, "hash", [iso |-> FALSE, posix |-> 0]),
                                now_posix),
                Get(execution_weights.weights, file_path,
                    CONFIDENCE_ONE \div 2),
                IF file_path \in arch_relevant_paths.paths
                THEN CONFIDENCE_ONE ELSE 0)
        result(rec, stype) == of_path(rec, stype, Get(rec, "file_path", <<>>))
        scored(stype) ==
            LET records ==
                    SelectSeq(_load_corpus(files, stype).records,
                        LAMBDA rec :
                            /\ _passes_filters(rec, file_type, module,
                                               after_date)
                            /\ "embedding" \in DOMAIN rec
                            /\ rec.embedding.v # <<>>)
            IN  [i \in 1..Len(records) |-> result(records[i], stype)]
        all_results ==
            Flatten([i \in 1..Len(source_types) |-> scored(source_types[i])])
        RECURSIVE sorted(_)
        sorted(results) ==
            IF results = <<>> THEN <<>>
            ELSE LET r == results[Len(results)]
                     rest == sorted(SubSeq(results, 1, Len(results) - 1))
                     before(x) == x.score >= r.score
                     after(x) == ~before(x)
                 IN  SelectSeq(rest, before) \o <<r>> \o SelectSeq(rest, after)
        key(r) == <<r.file_path, r.chunk_index>>
        \* the loop leaves once len(deduped) >= k, which it asks after it
        \* has appended
        dedupe(ordered) ==
            LET unseen == SelectSeq([i \in 1..Len(ordered) |-> i],
                            LAMBDA i : \A j \in 1..(i - 1) :
                                        key(ordered[j]) # key(ordered[i]))
            IN  Slice([i \in 1..Len(unseen) |-> ordered[unseen[i]]],
                      IF k >= 1 THEN k ELSE 1)
        deduped == dedupe(sorted(all_results))
    IN  IF query_embedding.v = <<>>
        THEN [raised |-> FALSE, results |-> <<>>]
        ELSE IF \/ arch_relevant_paths.raised
                \/ execution_weights.raised
                \/ \E i \in 1..Len(source_types) :
                        _load_corpus(files, source_types[i]).raised
        THEN [raised |-> TRUE, results |-> <<>>]
        ELSE [raised |-> FALSE, results |-> deduped]

\* memory directories, paths, query vectors, keyword arguments and vectors
\* of floats for the retriever.  "s/a.py" has two records for chunk 0; the
\* hash of "s/b.py" and of "d.md" is a timestamp (of half-life 1 and 3);
\* a run of the execution log names "s/b.py" three times; the histories are the
\* first runs of a list of four.
RetrieverFixtures ==
    LET A == <<"s", "/", "a", ".", "p", "y">>
        B == <<"s", "/", "b", ".", "p", "y">>
        M == <<"t", "/", "m", ".", "t", "f">>
        D == <<"d", ".", "m", "d">>
        sha == [iso |-> FALSE, posix |-> 0]
        dated(t) == [iso |-> TRUE, posix |-> t]
        rec(path, i, n, hash, v) ==
            [file_path |-> path, hash |-> hash, chunk_index |-> i,
             total_chunks |-> n, embedding |-> [e |-> 0, v |-> v]]
        file(ctx_id) == <<"f", "i", "l", "e", ":">> \o ctx_id
        runs ==
            <<[outcome |-> "success",
               retrieved_context_ids |->
                    <<<<"d", ":", "1">>, file(B), file(B), file(B)>>],
              [outcome |-> "failure", retrieved_context_ids |-> <<file(B)>>],
              [outcome |-> "success", retrieved_context_ids |-> <<file(B)>>],
              [outcome |-> "success", retrieved_context_ids |-> <<file(M)>>]>>
        bootstrap ==
            [f \in MemoryFiles |->
                CASE f = "file_embeddings" ->
                        EmbeddingsFile(<<rec(A, 0, 2, sha, <<1, 0>>),
                                         rec(A, 1, 2, sha, <<3, 4>>),
                                         rec(B, 0, 1, dated(1), <<0, 1>>),
                                         rec(M, 0, 1, sha, <<-1, 0>>),
                                         rec(A, 0, 2, sha, <<0, 1>>),
                                         [file_path |-> B, hash |-> sha,
                                          chunk_index |-> 1]>>)
                  [] f = "doc_embeddings" ->
                        EmbeddingsFile(<<rec(D, 0, 1, dated(3), <<4, -3>>),
                                         rec(D, 0, 1, dated(0), <<1, 0>>)>>)
                  [] f = "issue_embeddings" -> NoObject("garbled")
                  [] OTHER -> NoFile]
        history ==
            [bootstrap EXCEPT
                !["decision_log"] =
                    ObjectFile([schema_version |-> SCHEMA_VERSION,
                        generated_at |-> 0,
                        decisions |-> List(<<Decision("ADR", <<A>>)>>)]),
                !["execution_log"] =
                    ObjectFile([schema_version |-> SCHEMA_VERSION,
                        runs |-> List(Slice(runs, 2))])]
        given(key, values) ==
            {<<>>} \cup {[x \in {key} |-> value] : value \in values}
    IN  [memories |-> {bootstrap, history,
                       [history EXCEPT !["pr_embeddings"] = NoObject("array")]},
         paths |-> {A, B, M},
         histories |-> {Slice(runs, n) : n \in 0..Len(runs)},
         queries |-> {[e |-> 0, v |-> v] :
                        v \in {<<>>, <<1, 0>>, <<0, 1>>, <<3, 4>>}},
         kwargs |->
            {k @@ file_type @@ module @@ after_date @@ source_types @@ pure :
                k \in given("k", 0..MaxK),
                file_type \in given("file_type", {"python", "json"}),
                module \in given("module", {<<"s", "/">>}),
                after_date \in given("after_date", {2}),
                source_types \in given("source_types",
                                    {<<"file">>, <<"doc", "file", "wiki">>}),
                pure \in given("use_weighted_scoring", {FALSE})},
         vectors |-> {[e |-> e, v |-> v] :
                        e \in {-200, 0, 100, 200},
                        v \in {<<>>, <<2>>, <<0, 0>>, <<1, 0>>, <<0, 1>>,
                               <<-1, 0>>, <<3, 4>>, <<-3, -4>>, <<4, -3>>}}]

NoQuery == [op |-> "none"]

\* retriever.top_k(query_embedding, **kwargs) on the memory directory
TopK(query_embedding, kwargs, now_posix) ==
    LET out == top_k(memory.files, query_embedding, kwargs, now_posix)
    IN  /\ retr' = [op |-> "top_k", query_embedding |-> query_embedding,
                    kwargs |-> kwargs, now_posix |-> now_posix,
                    raised |-> out.raised, results |-> out.results]
        /\ UNCHANGED <<logVars, gateVars, embed, extract, graph, writers, issue>>

\* cosine_similarity(a, b) on two lists of floats
CosineSimilarity(a, b) ==
    /\ retr' = [op |-> "cosine_similarity", a |-> a, b |-> b,
                out |-> cosine_similarity(a, b)]
    /\ UNCHANGED <<logVars, gateVars, embed, extract, graph, writers, issue>>

\* compute_execution_success_weight of scripts/execution_logger.py; a
\* context id is a sequence of one-character strings
compute_execution_success_weight_mut_zero(file_path, execution_history) ==
    LET context_key == <<"f", "i", "l", "e", ":">> \o file_path
        relevant_runs ==
            SelectSeq(execution_history,
                LAMBDA r : context_key
                            \in Range(Get(r, "retrieved_context_ids", <<>>)))
        successful ==
            Len(SelectSeq(relevant_runs,
                    LAMBDA r : Get(r, "outcome", None) = "success"))
    IN  IF relevant_runs = <<>> THEN 0
        ELSE (successful * CONFIDENCE_ONE) \div Len(relevant_runs)

compute_execution_success_weight(file_path, execution_history) ==
    LET context_key == <<"f", "i", "l", "e", ":">> \o file_path
        relevant_runs ==
            SelectSeq(execution_history,
                LAMBDA r : context_key
                            \in Range(Get(r, "retrieved_context_ids", <<>>)))
        successful ==
            Len(SelectSeq(relevant_runs,
                    LAMBDA r : Get(r, "outcome", None) = "success"))
    IN  IF relevant_runs = <<>> THEN CONFIDENCE_ONE \div 2
        ELSE (successful * CONFIDENCE_ONE) \div Len(relevant_runs)

\* compute_execution_success_weight(file_path, execution_history)
ComputeExecutionSuccessWeight(file_path, execution_history) ==
    /\ retr' = [op |-> "compute_execution_success_weight",
                file_path |-> file_path,
                execution_history |-> execution_history,
                out |-> compute_execution_success_weight(file_path,
                            execution_history)]
    /\ UNCHANGED <<logVars, gateVars, embed, extract, graph, writers, issue>>

----------------------------------------------------------------------------
(* The repository ingestion (repo_ingestion.py)                            *)
(*                                                                         *)
(* A file of the tree walked is the record of the directories above it,    *)
(* of the stem and the extension of its name as os.path.splitext gives     *)
(* them, and of its source; its relative path is the triple of the first   *)
(* three.  A directory name is a sequence of characters.  The source of a  *)
(* Python file is what ast.parse makes of it: whether it parses, and its   *)
(* import statements in the order of the text, "import a.b, c" being       *)
(* [kind |-> "import", names |-> <<<<"a", "b">>, <<"c">>>>] and            *)
(* "from a.b import x" [kind |-> "from", names |-> <<<<"a", "b">>>>], with *)
(* the empty name for the module of "from . import x" (None).              *)

\* the list is not deduplicated
extract_python_imports_mut_no_dedupe(source) ==
    LET top_level(st) ==
            IF st.kind = "import"
            THEN [k \in 1..Len(st.names) |-> Head(st.names[k])]
            ELSE IF st.names[1] # <<>> THEN <<Head(st.names[1])>> ELSE <<>>
    IN  IF ~source.parses THEN <<>>
        ELSE Flatten([i \in 1..Len(source.statements) |->
                        top_level(source.statements[i])])

\* the top-level module names a Python file imports, each once, in the
\* order met; none when the file does not parse
extract_python_imports(source) ==
    LET top_level(st) ==
            IF st.kind = "import"
            THEN [k \in 1..Len(st.names) |-> Head(st.names[k])]
            ELSE IF st.names[1] # <<>> THEN <<Head(st.names[1])>> ELSE <<>>
        imports == Flatten([i \in 1..Len(source.statements) |->
                                top_level(source.statements[i])])
        first(i) == \A j \in 1..(i - 1) : imports[j] # imports[i]
        firsts == SelectSeq([i \in 1..Len(imports) |-> i], first)
    IN  IF ~source.parses THEN <<>>
        ELSE [k \in 1..Len(firsts) |-> imports[firsts[k]]]

\* the nodes and the import edges of the tree, whose files come in the
\* order os.walk lists them; the size of a file is left out of its node
build_repo_graph(tree) ==
    LET INDEXED_EXTENSIONS ==
            {".py", ".tf", ".rego", ".yml", ".yaml", ".md", ".json", ".hcl",
             ".sh"}
        \* those of EXCLUDED_DIRS a tree of the model has
        EXCLUDED_DIRS == {<<"_", "_", "p", "y", "c", "a", "c", "h", "e", "_", "_">>,
                          <<".", "g", "i", "t">>}
        lower_ext(ext) == IF ext = ".PY" THEN ".py" ELSE ext
        _file_type(ext) ==
            CASE lower_ext(ext) = ".py" -> "python"
              [] lower_ext(ext) \in {".tf", ".hcl"} -> "terraform"
              [] lower_ext(ext) = ".rego" -> "rego"
              [] lower_ext(ext) \in {".yml", ".yaml"} -> "yaml"
              [] lower_ext(ext) = ".md" -> "markdown"
              [] lower_ext(ext) = ".json" -> "json"
              [] lower_ext(ext) = ".sh" -> "shell"
              [] OTHER -> "other"
        walked(f) == \A i \in 1..Len(f.dir) :
                        /\ f.dir[i] \notin EXCLUDED_DIRS
                        /\ ~startswith(f.dir[i], <<".">>)
        indexed(f) == walked(f) /\ lower_ext(f.ext) \in INDEXED_EXTENSIONS
        rel_path(f) == <<f.dir, f.stem, f.ext>>
        files == SelectSeq(tree, indexed)
        python(f) == _file_type(f.ext) = "python"
        all_py_files == SelectSeq(files, python)
        stems == {all_py_files[i].stem : i \in 1..Len(all_py_files)}
        last(stem) == CHOOSE i \in 1..Len(all_py_files) :
                        /\ all_py_files[i].stem = stem
                        /\ \A j \in (i + 1)..Len(all_py_files) :
                                all_py_files[j].stem # stem
        py_filemap == [stem \in stems |-> rel_path(all_py_files[last(stem)])]
        known(mod_name) == mod_name \in stems
        edges_of(f) ==
            LET found == SelectSeq(extract_python_imports(f.source), known)
            IN  [k \in 1..Len(found) |->
                    [from |-> rel_path(f), to |-> py_filemap[found[k]],
                     relation |-> "imports"]]
    IN  [nodes |-> [i \in 1..Len(files) |->
                        [path |-> rel_path(files[i]),
                         type |-> _file_type(files[i].ext),
                         hash |-> _sha256_file(files[i].source)]],
         edges |-> Flatten([i \in 1..Len(all_py_files) |->
                                edges_of(all_py_files[i])])]

----------------------------------------------------------------------------
(* The claim of an issue (gh_utils.py)                                     *)
(*                                                                         *)
(* Several instances of the agent call GithubClient.claim_issue for one    *)
(* issue.  issue.labels are the labels the issue carries on GitHub;        *)
(* issue.instances[p] is the call of instance p: the request it sends next *)
(* (pc) and what the call returned.  GitHub serves one request at a time:  *)
(* it answers the DELETE of a label the issue carries by removing it, and  *)
(* the DELETE of a label the issue does not carry with 404.  The answer to *)
(* a request is "ok" when GitHub carries it out, "ignored" when it refuses *)
(* it with 404, 409 or 422, which _request takes as an empty answer, and   *)
(* "error" for any other status: out of _request the HTTPError is raised   *)
(* again; _delete returns False on every HTTPError.                        *)

\* remove_label gives True although the issue does not carry the label
claim_issue_mut_not_found_is_true(p) ==
    LET c == issue.instances[p]
        next(pc) == [issue.instances EXCEPT ![p].pc = pc]
        done(ret) == [issue.instances EXCEPT ![p] =
                        [pc |-> "returned", ret |-> ret]]
    IN  /\ UNCHANGED <<logVars, gateVars, embed, extract, retr, graph, writers>>
        /\ \E answer \in {"ok", "ignored", "error"} :
            \/ /\ c.pc = "ensure_label"
               /\ issue' = [issue EXCEPT !.instances =
                    IF answer = "error" THEN done("raised")
                    ELSE next("add_labels")]
            \/ /\ c.pc = "add_labels"
               /\ issue' =
                    IF answer = "error"
                    THEN [issue EXCEPT !.instances = done("raised")]
                    ELSE [labels |-> IF answer = "ok"
                                     THEN issue.labels \cup {"status:in-progress"}
                                     ELSE issue.labels,
                          instances |-> next("remove_label")]
            \/ /\ c.pc = "remove_label"
               /\ LET removed == answer = "ok"
                  IN  issue' =
                        [labels |-> IF removed
                                    THEN issue.labels \ {"status:triaged"}
                                    ELSE issue.labels,
                         instances |-> done(IF removed THEN "True"
                                            ELSE "False")]

\* the next request of the call of instance p: the POST of ensure_label,
\* the POST of add_labels, the DELETE of remove_label and the return
claim_issue(p) ==
    LET c == issue.instances[p]
        next(pc) == [issue.instances EXCEPT ![p].pc = pc]
        done(ret) == [issue.instances EXCEPT ![p] =
                        [pc |-> "returned", ret |-> ret]]
    IN  /\ UNCHANGED <<logVars, gateVars, embed, extract, retr, graph, writers>>
        /\ \E answer \in {"ok", "ignored", "error"} :
            \/ /\ c.pc = "ensure_label"
               /\ issue' = [issue EXCEPT !.instances =
                    IF answer = "error" THEN done("raised")
                    ELSE next("add_labels")]
            \/ /\ c.pc = "add_labels"
               /\ issue' =
                    IF answer = "error"
                    THEN [issue EXCEPT !.instances = done("raised")]
                    ELSE [labels |-> IF answer = "ok"
                                     THEN issue.labels \cup {"status:in-progress"}
                                     ELSE issue.labels,
                          instances |-> next("remove_label")]
            \/ /\ c.pc = "remove_label"
               /\ LET removed == answer = "ok" /\ "status:triaged" \in issue.labels
                  IN  issue' =
                        [labels |-> IF removed
                                    THEN issue.labels \ {"status:triaged"}
                                    ELSE issue.labels,
                         instances |-> done(IF removed THEN "True"
                                            ELSE "False")]

----------------------------------------------------------------------------
(* Specifications.  Each takes one component through its operations and    *)
(* leaves the state of the others as it starts.                            *)

LogIdle ==
    /\ logFile = LogFile("absent", SCHEMA_VERSION, <<>>)
    /\ now = 0
    /\ calls = 0
    /\ lastCall = NoCall

\* the execution logger: log_execution called on a log file in any state
InitLog ==
    /\ logFile \in InitialLogs
    /\ now = 0
    /\ calls = 0
    /\ lastCall = NoCall
    /\ GateIdle
    /\ EmbedIdle
    /\ extract = NoExtract
    /\ retr = NoQuery
    /\ graph = [op |-> "none"]
    /\ writers = <<>>
    /\ issue = [labels |-> {}, instances |-> <<>>]

NextLog == log_execution

SpecLog == InitLog /\ [][NextLog]_vars

\* the validation gate: run once on a tree and a memory directory that were
\* changed in up to MaxEdits places since the gate last passed
InitGate ==
    /\ GateIdle
    /\ LogIdle
    /\ EmbedIdle
    /\ extract = NoExtract
    /\ retr = NoQuery
    /\ graph = [op |-> "none"]
    /\ writers = <<>>
    /\ issue = [labels |-> {}, instances |-> <<>>]

NextGate ==
    \/ \E path \in RepoPaths, content \in Contents : EditRepoFile(path, content)
    \/ \E path \in RepoPaths : DeleteRepoFile(path)
    \/ \E f \in MemoryFiles : \E file \in Variants(f) : WriteMemoryFile(f, file)
    \/ RemoveMemoryDir
    \/ RunGate

SpecGate == InitGate /\ [][NextGate]_vars

\* the embedding pipeline: runs of main on a tree that changes between them
InitEmbed ==
    /\ LogIdle
    /\ repo = [CleanRepo EXCEPT ![A_PY] = Long, ![MAIN_TF] = Short,
                                ![README] = Short]
    /\ \E code \in EmbeddingStates :
            memory = [CleanMemory EXCEPT !.files["file_embeddings"] = code,
                                         !.files["doc_embeddings"] = NoFile]
    /\ edits = 0
    /\ gate = NoGate
    /\ EmbedIdle
    /\ extract = NoExtract
    /\ retr = NoQuery
    /\ graph = [op |-> "none"]
    /\ writers = <<>>
    /\ issue = [labels |-> {}, instances |-> <<>>]

\* what happens after the last run is seen by no run
NextEmbed ==
    \/ \E changed_only \in ChangedFiles, faults \in Faults :
            EmbedRun(changed_only, faults)
    \/ /\ embed.runs < MaxRuns
       /\ \E path \in {A_PY, MAIN_TF}, content \in Texts :
                EditRepoFile(path, content)
    \/ /\ embed.runs < MaxRuns
       /\ \E path \in {A_PY, MAIN_TF} : DeleteRepoFile(path)
    \/ /\ embed.runs < MaxRuns
       /\ Tick

SpecEmbed == InitEmbed /\ [][NextEmbed]_vars

\* the decision extractor: runs of main, with and without a PR, on a tree
\* that changes between them
InitExtract ==
    /\ LogIdle
    /\ repo = [p \in {A1451_PY} |->
                CHOOSE file \in SourceFiles(p) : Len(file.tags) = 1]
    /\ \E log \in DecisionLogs :
            memory = [CleanMemory EXCEPT !.files["decision_log"] = log]
    /\ edits = 0
    /\ gate = NoGate
    /\ EmbedIdle
    /\ extract = NoExtract
    /\ retr = NoQuery
    /\ graph = [op |-> "none"]
    /\ writers = <<>>
    /\ issue = [labels |-> {}, instances |-> <<>>]

NextExtract ==
    \/ \E pr_number \in {"0", "7"} :
       \E pr_body \in {<<>>, <<[line |-> 3, type |-> "ARCH_DECISION",
                                context |-> Contexts.secret]>>} :
            ExtractRun(pr_number, pr_body)
    \/ /\ extract.runs < MaxRuns
       /\ \E path \in Range(ScanOrder) : \E content \in SourceFiles(path) :
                EditRepoFile(path, content)
    \/ /\ extract.runs < MaxRuns
       /\ \E path \in Range(ScanOrder) : DeleteRepoFile(path)
    \/ /\ extract.runs < MaxRuns
       /\ Tick

SpecExtract == InitExtract /\ [][NextExtract]_vars

\* the memory retriever: one call, of top_k, of cosine_similarity or of the
\* logger's compute_execution_success_weight, on a memory directory; a call
\* changes nothing that another call reads, so a behaviour ends with the call
InitRetr ==
    /\ LogIdle
    /\ repo = CleanRepo
    /\ \E files \in RetrieverFixtures.memories :
            memory = [exists |-> TRUE, files |-> files]
    /\ edits = 0
    /\ gate = NoGate
    /\ EmbedIdle
    /\ extract = NoExtract
    /\ retr = NoQuery
    /\ graph = [op |-> "none"]
    /\ writers = <<>>
    /\ issue = [labels |-> {}, instances |-> <<>>]

NextRetr ==
    \/ /\ retr = NoQuery
       /\ \E query_embedding \in RetrieverFixtures.queries :
          \E kwargs \in RetrieverFixtures.kwargs :
          \E now_posix \in {1, 3} :
                TopK(query_embedding, kwargs, now_posix)
    \/ /\ retr = NoQuery
       /\ \E a \in RetrieverFixtures.vectors :
          \E b \in RetrieverFixtures.vectors :
                CosineSimilarity(a, b)
    \/ /\ retr = NoQuery
       /\ \E file_path \in RetrieverFixtures.paths :
          \E execution_history \in RetrieverFixtures.histories :
                ComputeExecutionSuccessWeight(file_path, execution_history)

SpecRetr == InitRetr /\ [][NextRetr]_vars

\* the repository ingestion: build_repo_graph called once, on a tree of up
\* to MaxFiles files, the files of the top directory listed first
InitIngest ==
    /\ LogIdle
    /\ GateIdle
    /\ EmbedIdle
    /\ extract = NoExtract
    /\ retr = NoQuery
    /\ graph = [op |-> "none"]
    /\ writers = <<>>
    /\ issue = [labels |-> {}, instances |-> <<>>]

NextIngest ==
    LET import(names) == [kind |-> "import", names |-> names]
        from(module) == [kind |-> "from", names |-> <<module>>]
        py(statements) == [parses |-> TRUE, statements |-> statements]
        file(dir, stem, ext, source) ==
            [dir |-> dir, stem |-> stem, ext |-> ext, source |-> source]
        Files ==
            {file(<<>>, "a", ".py", source) :
                source \in {py(<<import(<<<<"b">>>>)>>),
                            py(<<import(<<<<"b", "x">>, <<"b">>>>)>>),
                            py(<<from(<<>>), import(<<<<"os">>>>)>>),
                            py(<<from(<<"b", "x">>), import(<<<<"a">>>>)>>),
                            [py(<<import(<<<<"b">>>>)>>) EXCEPT !.parses = FALSE]}}
            \cup {file(<<>>, "b", ".py", source) :
                    source \in {py(<<>>), py(<<from(<<"a">>)>>)}}
            \cup {file(<<<<"p">>>>, "b", ".py", py(<<>>)),
                  file(<<<<".", "g", "i", "t">>>>, "b", ".py", py(<<>>)),
                  file(<<>>, "b", ".PY", py(<<>>)),
                  file(<<>>, "b", ".tf", py(<<>>)),
                  file(<<>>, "b", ".txt", py(<<>>))}
        Listing(tree) ==
            \A i, j \in 1..Len(tree) :
                i < j => /\ Len(tree[i].dir) <= Len(tree[j].dir)
                         /\ <<tree[i].dir, tree[i].stem, tree[i].ext>>
                                # <<tree[j].dir, tree[j].stem, tree[j].ext>>
    IN  /\ graph.op = "none"
        /\ \E n \in 1..MaxFiles : \E tree \in [1..n -> Files] :
                /\ Listing(tree)
                /\ graph' = [op |-> "build_repo_graph", tree |-> tree]
                                @@ build_repo_graph(tree)
        /\ UNCHANGED <<logVars, gateVars, embed, extract, retr, writers, issue>>

SpecIngest == InitIngest /\ [][NextIngest]_vars

\* the execution logger under concurrency: two processes call log_execution
\* within the same second on one log file, each with a record of its own;
\* the locals of a call hold a stored record and no runs until it sets them
InitLogConcurrent ==
    /\ logFile \in InitialLogs
    /\ now = 0
    /\ calls = 0
    /\ lastCall = NoCall
    /\ GateIdle
    /\ EmbedIdle
    /\ extract = NoExtract
    /\ retr = NoQuery
    /\ graph = [op |-> "none"]
    /\ \E first \in {ValidRecord} :
       \E second \in {[ValidRecord EXCEPT !.agent = "Gamma"],
                      [ValidRecord EXCEPT !.outcome = "exploded"]} :
            writers = [p \in 1..2 |->
                        [pc |-> "called",
                         record |-> IF p = 1 THEN first ELSE second,
                         json_record |-> StoredRecord,
                         existing_runs |-> <<>>,
                         result |-> "none"]]
    /\ issue = [labels |-> {}, instances |-> <<>>]

NextLogConcurrent == \E p \in 1..2 : LogStep(p)

SpecLogConcurrent == InitLogConcurrent /\ [][NextLogConcurrent]_vars

\* the claim of an issue: up to MaxInstances instances of the agent call
\* claim_issue for one issue, triaged or not
InitClaim ==
    /\ LogIdle
    /\ GateIdle
    /\ EmbedIdle
    /\ extract = NoExtract
    /\ retr = NoQuery
    /\ graph = [op |-> "none"]
    /\ writers = <<>>
    /\ \E labels \in {{"status:triaged"}, {"status:triaged", "bug"}, {"bug"}} :
       \E n \in 2..MaxInstances :
            issue = [labels |-> labels,
                     instances |-> [p \in 1..n |->
                                    [pc |-> "ensure_label", ret |-> "none"]]]

NextClaim == \E p \in 1..Len(issue.instances) : claim_issue(p)

SpecClaim == InitClaim /\ [][NextClaim]_vars

----------------------------------------------------------------------------
(* Claims about the execution logger, checked under SpecLog                *)

\* C1: after any sequence of log_execution calls, from an absent, an empty or
\* a populated log, the 'runs' list of the log file never holds more than
\* MAX_RUNS_IN_LOG records.
C1_RunsNeverExceedCap ==
    logFile.kind = "list" => Len(logFile.runs) <= MAX_RUNS_IN_LOG

\* a call on a full log has been written, and evicted a record
C1_Witness ==
    /\ lastCall.result = "True"
    /\ lastCall.evicted >= 1
    /\ Len(logFile.runs) = MAX_RUNS_IN_LOG

\* C2: a call that returns True leaves the new record at index 0 of 'runs',
\* followed by the records the 'runs' list held before, in their order; records
\* are missing only at the tail, and only when the list is at the cap.
C2_NewestFirstOldestEvicted ==
    [][lastCall'.result = "True" =>
        LET old == IF logFile.kind = "list" THEN logFile.runs ELSE <<>>
            new == logFile'.runs
            kept == Len(new) - 1
        IN  /\ logFile'.kind = "list"
            /\ Len(new) >= 1
            /\ new[1] = lastCall'.json_record
            /\ kept <= Len(old)
            /\ \A i \in 1..kept : new[i + 1] = old[i]
            /\ kept < Len(old) => Len(new) = MAX_RUNS_IN_LOG]_vars

\* a written call on a full log: the new record leads, an older one follows
C2_Witness ==
    /\ lastCall.result = "True"
    /\ lastCall.evicted >= 1
    /\ logFile.runs[1] = lastCall.json_record
    /\ logFile.runs[2] = StoredRecord

\* C3: whatever the state of the existing log file, a log_execution call leaves
\* every record the file held in place and unaltered, behind at most one new
\* record, except for the oldest records beyond the cap.
C3_AppendOnly ==
    [][LET old == logFile.runs
           new == logFile'.runs
       IN  \E d \in {0, 1} :
             \A i \in 1..Len(old) :
                i + d <= MAX_RUNS_IN_LOG =>
                    i + d <= Len(new) /\ new[i + d] = old[i]]_vars

\* the constraints C4 names, as the claim states them
C4_ViolatesConstraint(record) ==
    \/ record.agent \notin VALID_AGENTS
    \/ record.trigger_event \notin VALID_EVENT_TYPES
    \/ record.outcome \notin VALID_OUTCOMES
    \/ \E a \in Range(record.actions_taken) : a \notin VALID_ACTIONS
    \/ record.ci_status \notin VALID_CI_STATUSES
    \/ record.confidence < 0
    \/ record.confidence > CONFIDENCE_ONE
    \/ ~startswith(record.input_hash, SHA256_PREFIX)
    \/ Len(record.decision_summary) > MAX_SUMMARY_CHARS

\* the stored record holds the submitted values
C4_StoredAsSubmitted(record, run) ==
    /\ run.agent = record.agent
    /\ run.trigger.event_type = record.trigger_event
    /\ run.trigger.source_ref = record.trigger_source
    /\ run.input_hash = record.input_hash
    /\ run.retrieved_context_ids = record.retrieved_context_ids
    /\ run.decision_summary = record.decision_summary
    /\ run.actions_taken = record.actions_taken
    /\ run.outcome = record.outcome
    /\ run.ci_status = record.ci_status
    /\ run.duration_ms = record.duration_ms
    /\ run.confidence = record.confidence
    /\ run.retry_count = record.retry_count
    /\ run.context_retrieval_ms = record.context_retrieval_ms
    /\ Get(run, "failure_reason", <<>>) = record.failure_reason

\* C4: a record that violates a constraint makes log_execution return False
\* with the log file unchanged; a record that is stored is stored with the
\* submitted field values.
C4_RejectedOrStoredAsSubmitted ==
    [][/\ C4_ViolatesConstraint(lastCall'.record) =>
            lastCall'.result = "False" /\ logFile' = logFile
       /\ lastCall'.result = "True" =>
            C4_StoredAsSubmitted(lastCall'.record, logFile'.runs[1])]_vars

\* C27: no component uses records read from an artifact whose
\* schema_version differs from the supported one; here, a call of
\* log_execution that finds a log of another schema_version takes none of
\* its records into the log it writes.
C27_OtherVersionNotLoaded ==
    [][(/\ calls' = calls + 1
        /\ logFile.kind = "list"
        /\ logFile.schema_version # SCHEMA_VERSION
        /\ lastCall'.result = "True")
       => \A i \in 1..Len(logFile.runs) :
                logFile.runs[i] \notin Range(logFile'.runs)]_vars

\* C24: the append of log_execution is atomic: when two calls with valid
\* records run concurrently against the same log file and both return
\* True, the resulting log contains both records.
C24_ConcurrentAppendsBothKept ==
    (/\ Len(writers) = 2
     /\ \A p \in 1..2 : writers[p].result = "True")
    => \A p \in 1..2 : writers[p].json_record \in Range(logFile.runs)

----------------------------------------------------------------------------
(* Claims about the validation gate                                        *)

GateRan == gate.status # "none"

GatePassed == gate.status = "completed" /\ gate.exit_code = 0

\* the records of a code embedding file that parses to an object with a
\* list of embeddings
RecordsOf(f) ==
    IF /\ memory.files[f].kind = "object"
       /\ "embeddings" \in DOMAIN memory.files[f].data
       /\ memory.files[f].data.embeddings.json = "list"
    THEN Range(memory.files[f].data.embeddings.items)
    ELSE {}

ReferencesRealPath(rec) == rec.file_path # <<>> /\ ~IsVirtual(rec.file_path)

\* C5: if the gate passes, every record of file_embeddings.json and
\* doc_embeddings.json that references a real (non-virtual) path refers to
\* a file that exists and whose current SHA-256 equals the record's hash.
C5_PassImpliesHashesCurrent ==
    GatePassed =>
        \A f \in _CODE_EMBEDDING_FILES : \A rec \in RecordsOf(f) :
            ReferencesRealPath(rec) =>
                /\ isfile(repo, rec.file_path)
                /\ _sha256_file(repo[rec.file_path]) = rec.hash

\* C6: on a memory directory that exists, the gate runs all five checks
\* whatever the earlier ones found, and exits with code 1 exactly when a
\* check produced an error.
C6_AllChecksRunExitOneIffError ==
    (GateRan /\ memory.exists) =>
        /\ gate.ran = Range(Checks)
        /\ (gate.exit_code = 1 <=> gate.errors # {})
        /\ gate.exit_code \in {0, 1}

DeletedRelatedFile ==
    /\ memory.files["decision_log"].kind = "object"
    /\ validate_decision_log(memory.files["decision_log"].data)
    /\ \E dec \in Range(memory.files["decision_log"].data.decisions.items) :
            \E path \in Range(dec.related_files.items) : ~isfile(repo, path)

StaleKeyReported == \E e \in gate.errors : e.what = "stale keys"

\* C7 as stated: when a decision record's related file has been deleted
\* from the repository, the gate reports a "stale key" error and exits
\* non-zero.
C7_DeletedRelatedFileIsStaleKey ==
    (GateRan /\ memory.exists /\ DeletedRelatedFile) =>
        StaleKeyReported /\ gate.exit_code # 0

DeletedEmbeddedFile(f) ==
    \E rec \in RecordsOf(f) :
        ReferencesRealPath(rec) /\ ~isfile(repo, rec.file_path)

\* C7 amended: when a record of file_embeddings.json or doc_embeddings.json
\* references a real path whose file has been deleted, the gate exits
\* non-zero, and its hash check, when it completes, reports "stale keys"
\* for that embedding file.  The related files of decision records are not
\* looked at.
C7_DeletedEmbeddedFileIsStaleKey ==
    \A f \in _CODE_EMBEDDING_FILES :
        (GateRan /\ memory.exists /\ DeletedEmbeddedFile(f)) =>
            /\ gate.exit_code # 0
            /\ "hash" \in gate.ran =>
                    Error("hash", f, "stale keys") \in gate.errors

\* the gate has completed on a tree where an embedded file was deleted
C7_Witness ==
    /\ gate.status = "completed"
    /\ DeletedEmbeddedFile("file_embeddings")
    /\ Error("hash", "file_embeddings", "stale keys") \in gate.errors
    /\ gate.exit_code = 1

----------------------------------------------------------------------------
(* Claims about the embedding pipeline                                     *)

\* a step that is a run of the pipeline to its end, following a run to its
\* end with no change of the tree in between, with the same --changed-files
\* and an embedding function that behaves the same on every chunk
SecondOfTwoRuns == embed'.runs = embed.runs + 1 /\ embed'.again

\* C9 as stated: two consecutive embedding runs with no content changes in
\* between produce identical output files.
C9_ConsecutiveRunsIdenticalFiles ==
    [][SecondOfTwoRuns =>
        \A f \in _CODE_EMBEDDING_FILES : memory'.files[f] = memory.files[f]]_vars

\* C9 amended: two consecutive embedding runs with no content changes in
\* between, given the same --changed-files and an embedding function that
\* behaves the same on every chunk, produce output files that are identical
\* but for their generated_at stamp.
C9_ConsecutiveRunsIdenticalRecords ==
    [][SecondOfTwoRuns =>
        \A f \in _CODE_EMBEDDING_FILES :
            WithData(memory'.files[f], "generated_at", 0)
                = WithData(memory.files[f], "generated_at", 0)]_vars

\* a repeated run has rewritten artifacts that hold records
C9_Witness ==
    /\ embed.again
    /\ \A f \in _CODE_EMBEDDING_FILES :
        /\ memory.files[f].kind = "object"
        /\ memory.files[f].data.embeddings.items # <<>>

\* C10: in an embedding run, every existing record of a file whose hash is
\* unchanged is in the output unmodified, and the embedding function is
\* not called for that file, whether or not other files are re-embedded.
C10_UnchangedFilesCarriedOver ==
    [][(embed'.runs = embed.runs + 1 /\ embed'.status = "done") =>
        \A f \in _CODE_EMBEDDING_FILES :
            LET existing_records ==
                    Range(_load_existing_embeddings(memory.files[f]).records)
            IN  \A rec \in existing_records :
                    (/\ isfile(repo, rec.file_path)
                     /\ rec.hash = _sha256_file(repo[rec.file_path]))
                    => /\ rec \in Range(memory'.files[f].data.embeddings.items)
                       /\ \A call \in embed'.calls[f] :
                            call[1] # rec.file_path]_vars

\* a run has re-embedded one file of file_embeddings.json and left the
\* records of another, made by an earlier run, in place
C10_Witness ==
    /\ embed.status = "done"
    /\ embed.runs >= 2
    /\ embed.calls["file_embeddings"] # {}
    /\ \E rec \in Range(memory.files["file_embeddings"].data.embeddings.items) :
            \A call \in embed.calls["file_embeddings"] :
                call[1] # rec.file_path

\* the chunk model.encode was called for, and whether the embedding function
\* of the run fails on it or returns a vector of the wrong dimension
ChunkOfCall(call, tree) == _chunk_text(tree[call[1]])[call[2] + 1]

FailsOn(chunk, faults) == chunk \in faults.raises \cup faults.short

\* C11: when the embedding function fails, or returns a vector of the wrong
\* dimension, for a chunk, the run does not abort: that chunk alone has no
\* record, every other chunk of every file to embed has its record with
\* its vector, and the artifact is written.
C11_FailedChunkOnlySkipped ==
    [][(/\ embed'.runs = embed.runs + 1
        /\ \A f \in _CODE_EMBEDDING_FILES :
                ~_load_existing_embeddings(memory.files[f]).raised)
       => /\ embed'.status = "done"
          /\ \A f \in _CODE_EMBEDDING_FILES :
                /\ memory'.files[f].kind = "object"
                /\ memory'.files[f].data.generated_at = now
                /\ \A call \in embed'.calls[f] :
                    LET chunk == ChunkOfCall(call, repo)
                        made == {rec \in Range(memory'.files[f].data.embeddings.items) :
                                    /\ rec.file_path = call[1]
                                    /\ rec.chunk_index = call[2]}
                    IN  IF FailsOn(chunk, embed'.faults)
                        THEN made = {}
                        ELSE \E rec \in made :
                                rec.embedding = Vector(EMBEDDING_DIM, chunk)]_vars

\* a run came to its end although the embedding function failed on a chunk
\* of a file whose other chunk has its record in the artifact
C11_Witness ==
    /\ embed.status = "done"
    /\ memory.files["file_embeddings"].kind = "object"
    /\ \E bad, good \in embed.calls["file_embeddings"] :
        /\ bad[1] = good[1]
        /\ FailsOn(ChunkOfCall(bad, embed.tree), embed.faults)
        /\ ~FailsOn(ChunkOfCall(good, embed.tree), embed.faults)
        /\ \E rec \in Range(memory.files["file_embeddings"].data.embeddings.items) :
            /\ rec.file_path = good[1]
            /\ rec.chunk_index = good[2]

\* a step that is a run of the pipeline to its end
RunToEnd == embed'.runs = embed.runs + 1 /\ embed'.status = "done"

\* what the run found of a candidate file of an artifact: records under its
\* path, the hash of the first of them being its current hash or not, and
\* the file being named by --changed-files or not
HasRecords(f, p) ==
    p \in DOMAIN _load_existing_embeddings(memory.files[f]).hash_lookup

HashUnchanged(f, p) ==
    /\ HasRecords(f, p)
    /\ _load_existing_embeddings(memory.files[f]).hash_lookup[p]
            = _sha256_file(repo[p])

Listed(p) == embed'.changed_only # {} /\ p \in embed'.changed_only

Unlisted(p) == embed'.changed_only # {} /\ p \notin embed'.changed_only

\* what the run did with the file: model.encode called for none of its
\* chunks; or called for each of them, the records of the path in the
\* artifact written being those the calls gave and no other
PassedBy(f, p) == \A call \in embed'.calls[f] : call[1] # p

Regenerated(f, p) ==
    LET of_path(rec) == rec.file_path = p
    IN  /\ {call \in embed'.calls[f] : call[1] = p}
            = {<<p, i - 1>> : i \in 1..Len(_chunk_text(repo[p]))}
        /\ SelectSeq(memory'.files[f].data.embeddings.items, of_path)
            = embed_chunks(p, repo, embed'.faults)

CandidatesOf(f) == Range(_collect_files(repo, f = "doc_embeddings"))

\* C26 as stated: for each candidate file the run skips re-embedding
\* exactly when the file's hash is unchanged and, in changed-files mode,
\* the file is not listed; in every other case it regenerates all of the
\* file's chunks and replaces every prior record for that path.
C26_SkipIffUnchangedAndUnlisted ==
    [][RunToEnd =>
        \A f \in _CODE_EMBEDDING_FILES : \A p \in CandidatesOf(f) :
            IF HashUnchanged(f, p) /\ ~Listed(p)
            THEN PassedBy(f, p)
            ELSE Regenerated(f, p)]_vars

\* C26 amended: for each candidate file the run skips re-embedding exactly
\* when the file has records and either the recorded hash is its current
\* hash or, in changed-files mode, the file is not listed; in every other
\* case (no records of the file, or hash changed and, in changed-files
\* mode, listed) it regenerates all of the file's chunks and replaces
\* every prior record for that path.
C26_SkipIffRecordedAndUnchangedOrUnlisted ==
    [][RunToEnd =>
        \A f \in _CODE_EMBEDDING_FILES : \A p \in CandidatesOf(f) :
            IF HasRecords(f, p) /\ (HashUnchanged(f, p) \/ Unlisted(p))
            THEN PassedBy(f, p)
            ELSE Regenerated(f, p)]_vars

\* a second run in changed-files mode has regenerated the listed file,
\* whose content had changed, and has passed by a file it does not list
C26_Witness ==
    /\ embed.status = "done"
    /\ embed.runs >= 2
    /\ embed.changed_only = {MAIN_TF}
    /\ \E call \in embed.calls["file_embeddings"] : call[1] = MAIN_TF
    /\ \A call \in embed.calls["file_embeddings"] : call[1] # A_PY
    /\ \E rec \in Range(memory.files["file_embeddings"].data.embeddings.items) :
            rec.file_path = A_PY

\* the records of an artifact that have the path and the chunk index
RecordsOfChunk(file, p, i) ==
    {j \in 1..Len(file.data.embeddings.items) :
        /\ file.data.embeddings.items[j].file_path = p
        /\ file.data.embeddings.items[j].chunk_index = i}

\* C30: after an embedding run in which every embedding call succeeds
\* (the embedding function of the run fails on no chunk), every path
\* present in the written artifact has exactly one record for each chunk
\* index 0..total_chunks-1, even when an earlier run skipped some of the
\* file's chunks because their embedding failed.
C30_SuccessfulRunLeavesNoGap ==
    [][(/\ RunToEnd
        /\ embed'.faults = NoFaults)
       => \A f \in _CODE_EMBEDDING_FILES :
            \A rec \in Range(memory'.files[f].data.embeddings.items) :
                \A i \in 0..(rec.total_chunks - 1) :
                    Cardinality(RecordsOfChunk(memory'.files[f],
                                               rec.file_path, i)) = 1]_vars

----------------------------------------------------------------------------
(* Claims about the decision extractor                                     *)

\* a step that is a run of the extractor which wrote decision_log.json
ExtractorWrote == extract'.runs = extract.runs + 1 /\ extract'.status = "written"

LogDecisions(file) == Range(load_existing_decisions(file).decisions)

\* C12: the decisions a run extracted from a PR body are still in
\* decision_log.json after a later run that is not given that PR, and every
\* decision of the log that comes from scanning code or docs is one of the
\* current run's scan.
C12_PrDecisionsPersistScannedReplaced ==
    [][ExtractorWrote =>
        /\ \A d \in LogDecisions(memory.files["decision_log"]) :
            ("pr_number" \in DOMAIN d /\ d.pr_number # extract'.pr_number)
            => d \in LogDecisions(memory'.files["decision_log"])
        /\ \A d \in LogDecisions(memory'.files["decision_log"]) :
            d.source.path[1] # "pr" => d \in Range(extract'.new_decisions)]_vars

\* the longest run of characters of [A-Za-z0-9+/=] in a text, "run" being
\* the length of the run the text continues
RECURSIVE LongestRun(_, _)
LongestRun(text, run) ==
    IF text = <<>> THEN run
    ELSE IF Head(text).tok THEN LongestRun(Tail(text), run + Head(text).n)
    ELSE LET rest == LongestRun(Tail(text), 0)
         IN  IF run > rest THEN run ELSE rest

\* C13: every decision record the extractor persists to decision_log.json
\* has a context without a run of 32 or more characters of [A-Za-z0-9+/=],
\* whether it comes from an inline tag, an ADR document, a PR body or the
\* previous log.
C13_NoTokenInPersistedContext ==
    extract.status = "written" =>
        \A d \in LogDecisions(memory.files["decision_log"]) :
            LongestRun(d.context, 0) < _SECRET_MIN

\* C14: _decision_id is a function of (type, source, ordinal), and two
\* decisions of one run that were given differing (type, source, ordinal)
\* have different ids.
C14_DifferingInputsDifferingIds ==
    \A i, j \in 1..Len(extract.found) :
        LET a == extract.found[i]
            b == extract.found[j]
        IN  /\ extract.new_decisions[i].decision_id
                    = _decision_id(a[1], a[2], a[3])
            /\ a # b => extract.new_decisions[i].decision_id
                            # extract.new_decisions[j].decision_id

IdOf(d) == Get(d, "decision_id", "")

\* the records of a list that are the last of their id
LastOfId(decisions) ==
    {decisions[i] : i \in {i \in 1..Len(decisions) :
        \A j \in (i + 1)..Len(decisions) :
            IdOf(decisions[j]) # IdOf(decisions[i])}}

\* C15 as stated: deduplicate_decisions returns records of pairwise distinct
\* decision_id, for each id the record that appears last in the input, and
\* so every record whose id is unique in the input.
C15_DistinctIdsLastWinsAllKept ==
    extract.status = "written" =>
        /\ \A i, j \in 1..Len(extract.deduped) :
            i # j => IdOf(extract.deduped[i]) # IdOf(extract.deduped[j])
        /\ Range(extract.deduped) = LastOfId(extract.merged)

\* C15 amended: deduplicate_decisions returns records of pairwise distinct
\* decision_id, for each non-empty id of the input the record that appears
\* last with it, and so every record whose non-empty id is unique in the
\* input; a record with an empty or missing decision_id is dropped.
C15_DistinctIdsLastWinsNonEmptyKept ==
    extract.status = "written" =>
        /\ \A i, j \in 1..Len(extract.deduped) :
            i # j => IdOf(extract.deduped[i]) # IdOf(extract.deduped[j])
        /\ Range(extract.deduped)
                = {d \in LastOfId(extract.merged) : IdOf(d) # ""}

\* a run deduplicated a list in which an id occurred twice, on different
\* records, and another id once
C15_Witness ==
    /\ extract.status = "written"
    /\ \E i, j \in 1..Len(extract.merged) :
        /\ i < j
        /\ IdOf(extract.merged[i]) = IdOf(extract.merged[j])
        /\ IdOf(extract.merged[i]) # ""
        /\ extract.merged[i] # extract.merged[j]
        /\ extract.merged[i] \notin Range(extract.deduped)
    /\ Len(extract.deduped) >= 2

----------------------------------------------------------------------------
(* Claims on the memory retriever                                          *)

\* top_k was called and returned
Queried == retr.op = "top_k" /\ ~retr.raised

\* the embedding records of the memory directory that a result may come
\* from: those of its corpus with its path and its chunk index
Behind(result) ==
    LET file == memory.files[result.source_type \o "_embeddings"]
        records == IF file.kind = "object" THEN file.data.embeddings.items
                   ELSE <<>>
    IN  {rec \in Range(records) :
            /\ "embedding" \in DOMAIN rec
            /\ rec.file_path = result.file_path
            /\ rec.chunk_index = result.chunk_index}

\* C16: top_k never returns more than k results, for every k >= 0, every
\* corpus content and every filter combination.
C16_AtMostKResults ==
    Queried => Len(retr.results) <= Get(retr.kwargs, "k", 10)

\* the suffixes of the paths of a file type: those of the retriever's
\* ext_map and, for the type "json" of the repository graph, ".json"
ExtensionsOf(file_type) ==
    CASE file_type = "python" -> {<<".", "p", "y">>}
      [] file_type = "terraform" -> {<<".", "t", "f">>}
      [] file_type = "rego" -> {<<".", "r", "e", "g", "o">>}
      [] file_type = "yaml" ->
            {<<".", "y", "m", "l">>, <<".", "y", "a", "m", "l">>}
      [] file_type = "markdown" -> {<<".", "m", "d">>}
      [] file_type = "shell" -> {<<".", "s", "h">>}
      [] file_type = "json" -> {<<".", "j", "s", "o", "n">>}

HasExtension(path, file_type) ==
    \E ext \in ExtensionsOf(file_type) :
        /\ Len(path) >= Len(ext)
        /\ SubSeq(path, Len(path) - Len(ext) + 1, Len(path)) = ext

\* C17 as stated: every result of top_k satisfies the requested pre-filters:
\* with file_type set, its path has the extension of that type; with module
\* set, its path starts with that prefix; with source_types set, its
\* source_type is one of the requested corpora.
C17_ResultsPassFilters ==
    Queried =>
        \A i \in 1..Len(retr.results) :
            LET result == retr.results[i]
            IN  /\ "file_type" \in DOMAIN retr.kwargs =>
                        HasExtension(result.file_path, retr.kwargs.file_type)
                /\ "module" \in DOMAIN retr.kwargs =>
                        startswith(result.file_path, retr.kwargs.module)
                /\ "source_types" \in DOMAIN retr.kwargs =>
                        result.source_type \in Range(retr.kwargs.source_types)

\* C17 amended: every result of top_k satisfies the requested pre-filters:
\* with file_type set to python, terraform, rego, yaml, markdown or shell,
\* its path has an extension of that type (any other file_type filters
\* nothing); with module set, its path starts with that prefix; with
\* source_types set, its source_type is one of the requested corpora.
C17_ResultsPassKnownFilters ==
    Queried =>
        \A i \in 1..Len(retr.results) :
            LET result == retr.results[i]
            IN  /\ /\ "file_type" \in DOMAIN retr.kwargs
                   /\ retr.kwargs.file_type
                        \in {"python", "terraform", "rego", "yaml",
                             "markdown", "shell"}
                   => HasExtension(result.file_path, retr.kwargs.file_type)
                /\ "module" \in DOMAIN retr.kwargs =>
                        startswith(result.file_path, retr.kwargs.module)
                /\ "source_types" \in DOMAIN retr.kwargs =>
                        result.source_type \in Range(retr.kwargs.source_types)

\* a query with the three filters set returned three results, from corpora
\* that also hold a record of another type, one under another prefix and
\* one of another corpus
C17_Witness ==
    /\ Queried
    /\ {"file_type", "module", "source_types"} \subseteq DOMAIN retr.kwargs
    /\ retr.kwargs.file_type = "python"
    /\ Len(retr.results) = 3
    /\ \E rec \in Range(memory.files["file_embeddings"].data.embeddings.items) :
            /\ "embedding" \in DOMAIN rec
            /\ ~HasExtension(rec.file_path, "python")
            /\ ~startswith(rec.file_path, retr.kwargs.module)
    /\ memory.files["doc_embeddings"].data.embeddings.items # <<>>

\* a record is dated when its hash field is a timestamp that parses, the one
\* date top_k reads from a record
Dated(rec) == rec.hash.iso /\ rec.hash.posix > 0

\* C18: when after_date is given, top_k applies it as a hard filter on
\* timestamp: no returned record is dated before after_date.
C18_NoResultBeforeAfterDate ==
    Queried /\ "after_date" \in DOMAIN retr.kwargs =>
        \A i \in 1..Len(retr.results) :
            \E rec \in Behind(retr.results[i]) :
                Dated(rec) => rec.hash.posix >= retr.kwargs.after_date

\* the paths of the related files of the decision log and of the "file:"
\* context references of the execution log
ReferencedPaths(logs) ==
    LET items(f, key) ==
            IF memory.files[f].kind = "object" /\ key \in DOMAIN memory.files[f].data
            THEN memory.files[f].data[key].items ELSE <<>>
        decisions == items("decision_log", "decisions")
        runs == items("execution_log", "runs")
        prefix == <<"f", "i", "l", "e", ":">>
    IN  (IF "decision_log" \in logs
         THEN {d.related_files.items[j] : <<d, j>> \in
                    {<<d, j>> \in Range(decisions) \X (1..3) :
                        j <= Len(d.related_files.items)}}
         ELSE {})
        \cup
        (IF "execution_log" \in logs
         THEN {SubSeq(r.retrieved_context_ids[j], 6,
                      Len(r.retrieved_context_ids[j])) : <<r, j>> \in
                    {<<r, j>> \in Range(runs) \X (1..3) :
                        /\ j <= Len(r.retrieved_context_ids)
                        /\ startswith(r.retrieved_context_ids[j], prefix)}}
         ELSE {})

\* C19: with weighted scoring on, each result's score is 0.6 * semantic
\* + 0.2 * recency + 0.1 * exec_success + 0.1 * arch_relevance, where
\* recency is 0.5 unless the record is dated (and then halves with every
\* half-life of its age), exec_success is 0.5 for a path that no run
\* referred to, and arch_relevance is 1.0 for a path among the related files
\* of a decision or the "file:" references of a run and 0.0 otherwise; so a
\* perfect semantic match with no history, decisions or date scores 0.75.
C19_CompositeScore ==
    Queried /\ "use_weighted_scoring" \notin DOMAIN retr.kwargs =>
        \A i \in 1..Len(retr.results) :
            LET result == retr.results[i]
                path == result.file_path
            IN  \E rec \in Behind(result) :
                    LET semantic ==
                            cosine_similarity(retr.query_embedding,
                                              rec.embedding).value
                        age == IF retr.now_posix > rec.hash.posix
                               THEN retr.now_posix - rec.hash.posix ELSE 0
                        recency == IF Dated(rec)
                                   THEN CONFIDENCE_ONE \div (2 ^ age)
                                   ELSE CONFIDENCE_ONE \div 2
                        exec_success ==
                            IF path \in ReferencedPaths({"execution_log"})
                            THEN _load_execution_success_weights(
                                        memory.files).weights[path]
                            ELSE CONFIDENCE_ONE \div 2
                        arch_relevance ==
                            IF path \in ReferencedPaths({"decision_log",
                                                         "execution_log"})
                            THEN CONFIDENCE_ONE ELSE 0
                    IN  /\ 10 * result.score
                            = 6 * semantic + 2 * recency + exec_success
                                + arch_relevance
                        /\ result.metadata.semantic = semantic
                        /\ result.metadata.arch_relevance = arch_relevance
                        /\ /\ semantic = CONFIDENCE_ONE
                           /\ ~Dated(rec)
                           /\ ReferencedPaths({"decision_log",
                                               "execution_log"}) = {}
                           => 4 * result.score = 3 * CONFIDENCE_ONE

\* a weighted query on a memory directory without logs returned a perfect
\* match of an undated record, scored 0.75, and a dated one
C19_Witness ==
    /\ Queried
    /\ "use_weighted_scoring" \notin DOMAIN retr.kwargs
    /\ ReferencedPaths({"decision_log", "execution_log"}) = {}
    /\ \E i \in 1..Len(retr.results) :
            /\ retr.results[i].metadata.semantic = CONFIDENCE_ONE
            /\ 4 * retr.results[i].score = 3 * CONFIDENCE_ONE
            /\ \A rec \in Behind(retr.results[i]) : ~Dated(rec)
    /\ \E i \in 1..Len(retr.results) :
            \A rec \in Behind(retr.results[i]) : Dated(rec)

NonZero(x) == \E i \in 1..Len(x.v) : x.v[i] # 0

\* two lists of floats of one length whose products sum to zero
Orthogonal(a, b) ==
    LET n == Len(a.v)
        sum[i \in 0..n] == IF i = 0 THEN 0 ELSE sum[i - 1] + a.v[i] * b.v[i]
    IN  Len(b.v) = n /\ sum[n] = 0

Opposite(a, b) ==
    /\ Len(a.v) = Len(b.v)
    /\ a.e = b.e
    /\ \A i \in 1..Len(a.v) : b.v[i] = -a.v[i]

\* the value that cosine_similarity returned is the number value
CosineGave(value) == ~retr.out.nan /\ retr.out.value = value

\* C20 as stated: cosine_similarity never raises and returns 1.0 for
\* identical non-zero vectors, 0.0 for orthogonal vectors, -1.0 for opposite
\* vectors, and 0.0 whenever either vector has zero magnitude or the two
\* vectors differ in dimension.
C20_CosineCases ==
    retr.op = "cosine_similarity" =>
        LET a == retr.a
            b == retr.b
        IN  /\ a = b /\ NonZero(a) => CosineGave(CONFIDENCE_ONE)
            /\ Orthogonal(a, b) => CosineGave(0)
            /\ Opposite(a, b) /\ NonZero(a) => CosineGave(-CONFIDENCE_ONE)
            /\ ~NonZero(a) \/ ~NonZero(b) => CosineGave(0)
            /\ Len(a.v) # Len(b.v) => CosineGave(0)

\* the sum of the squares of the vector is a float that is neither 0.0 for
\* a vector that is not zero nor infinite
SquaresInRange(x) == NonZero(x) => -326 < 2 * x.e /\ 2 * x.e < 309

\* C20 on vectors whose sums of squares neither underflow to 0.0 nor
\* overflow: cosine_similarity returns 0.0 when the two vectors differ in
\* dimension, 1.0 for identical non-zero vectors, 0.0 for orthogonal vectors,
\* -1.0 for opposite vectors and 0.0 when either vector has zero magnitude.
C20_CosineCasesInRange ==
    retr.op = "cosine_similarity" =>
        LET a == retr.a
            b == retr.b
        IN  /\ Len(a.v) # Len(b.v) => CosineGave(0)
            /\ SquaresInRange(a) /\ SquaresInRange(b) =>
                /\ a = b /\ NonZero(a) => CosineGave(CONFIDENCE_ONE)
                /\ Orthogonal(a, b) => CosineGave(0)
                /\ Opposite(a, b) /\ NonZero(a) => CosineGave(-CONFIDENCE_ONE)
                /\ ~NonZero(a) \/ ~NonZero(b) => CosineGave(0)

\* C21: no operation of the retriever raises when a memory artifact is
\* missing, unparseable or malformed (valid JSON of the wrong shape, records
\* with missing keys); it returns empty results for that artifact instead.
C21_TopKNeverRaises == retr.op = "top_k" => ~retr.raised

\* the candidates of the query in encounter order, corpora in the order
\* requested and records in file order, each with its key and its score
Candidates ==
    LET kwargs == retr.kwargs
        source_types ==
            Get(kwargs, "source_types", <<"file", "doc", "issue", "pr">>)
        passes(rec) ==
            /\ "embedding" \in DOMAIN rec
            /\ /\ "file_type" \in DOMAIN kwargs
               /\ kwargs.file_type \in {"python", "terraform", "rego", "yaml",
                                        "markdown", "shell"}
               => HasExtension(rec.file_path, kwargs.file_type)
            /\ "module" \in DOMAIN kwargs =>
                    startswith(rec.file_path, kwargs.module)
        score(rec) ==
            LET semantic == cosine_similarity(retr.query_embedding,
                                              rec.embedding).value
                recency == _recency_weight(rec.hash, retr.now_posix)
                exec_success ==
                    Get(_load_execution_success_weights(memory.files).weights,
                        rec.file_path, CONFIDENCE_ONE \div 2)
                arch_relevance ==
                    IF rec.file_path \in ReferencedPaths({"decision_log",
                                                          "execution_log"})
                    THEN CONFIDENCE_ONE ELSE 0
            IN  IF "use_weighted_scoring" \in DOMAIN kwargs THEN semantic
                ELSE (6 * semantic + 2 * recency + exec_success
                        + arch_relevance) \div 10
        corpus(stype) ==
            LET name == stype \o "_embeddings"
                records ==
                    IF name \in DOMAIN memory.files
                        /\ memory.files[name].kind = "object"
                    THEN SelectSeq(memory.files[name].data.embeddings.items,
                                   passes)
                    ELSE <<>>
            IN  [i \in 1..Len(records) |->
                    [key |-> <<records[i].file_path, records[i].chunk_index>>,
                     source_type |-> stype, score |-> score(records[i]),
                     embedding |-> records[i].embedding]]
    IN  Flatten([i \in 1..Len(source_types) |-> corpus(source_types[i])])

\* the first candidate of every key, in the order of the sequence
FirstOfKey(candidates) ==
    LET first == SelectSeq([i \in 1..Len(candidates) |-> i],
                    LAMBDA i : \A j \in 1..(i - 1) :
                                    candidates[j].key # candidates[i].key)
    IN  [i \in 1..Len(first) |-> candidates[first[i]]]

\* sorted by score, highest first, candidates of one score in the order of
\* the sequence
RECURSIVE ByScore(_)
ByScore(candidates) ==
    IF candidates = <<>> THEN <<>>
    ELSE LET last == candidates[Len(candidates)]
             rest == ByScore(SubSeq(candidates, 1, Len(candidates) - 1))
         IN  SelectSeq(rest, LAMBDA c : c.score >= last.score) \o <<last>>
                \o SelectSeq(rest, LAMBDA c : c.score < last.score)

\* the results are the candidates of the sequence, one for one
ResultsAre(candidates) ==
    /\ Len(retr.results) = Len(candidates)
    /\ \A i \in 1..Len(candidates) :
            /\ retr.results[i].file_path = candidates[i].key[1]
            /\ retr.results[i].chunk_index = candidates[i].key[2]
            /\ retr.results[i].source_type = candidates[i].source_type
            /\ retr.results[i].score = candidates[i].score

\* a candidate has the vector of the query, and scoring is pure cosine
ExactMatch ==
    /\ "use_weighted_scoring" \in DOMAIN retr.kwargs
    /\ \E i \in 1..Len(Candidates) :
            Candidates[i].embedding = retr.query_embedding

RunsNaming(file_path, execution_history) ==
    {i \in 1..Len(execution_history) :
        \E j \in 1..Len(execution_history[i].retrieved_context_ids) :
            execution_history[i].retrieved_context_ids[j]
                = <<"f", "i", "l", "e", ":">> \o file_path}

\* C22: compute_execution_success_weight(path, history) is the number of
\* runs with outcome success divided by the number of runs, over the runs
\* whose retrieved_context_ids contain "file:<path>", and the neutral 0.5
\* when no run names the path; runs that name only other paths never change
\* the result.
C22_SuccessesOverUses ==
    retr.op = "compute_execution_success_weight" =>
        LET history == retr.execution_history
            uses == RunsNaming(retr.file_path, history)
            successes == {i \in uses : history[i].outcome = "success"}
            naming == SelectSeq(history,
                        LAMBDA r : \E i \in uses : history[i] = r)
        IN  /\ uses = {} => retr.out = CONFIDENCE_ONE \div 2
            /\ uses # {} =>
                retr.out = (Cardinality(successes) * CONFIDENCE_ONE)
                                \div Cardinality(uses)
            /\ retr.out = compute_execution_success_weight(retr.file_path,
                                                           naming)

\* the weight of a path was computed from a history in which two runs that
\* succeeded and one that failed name it and another run names another path
C22_Witness ==
    /\ retr.op = "compute_execution_success_weight"
    /\ Cardinality(RunsNaming(retr.file_path, retr.execution_history)) = 3
    /\ Len(retr.execution_history) = 4
    /\ retr.out = (2 * CONFIDENCE_ONE) \div 3

\* C28: for every execution log and every path, the exec_success that top_k
\* uses for the path equals compute_execution_success_weight(path, runs) of
\* the execution logger on the same log.
C28_ExecSuccessIsLoggersWeight ==
    Queried /\ "use_weighted_scoring" \notin DOMAIN retr.kwargs =>
        LET log == memory.files["execution_log"]
            runs == IF log.kind = "object" THEN log.data.runs.items ELSE <<>>
        IN  \A i \in 1..Len(retr.results) :
                retr.results[i].metadata.exec_success
                    = round4(compute_execution_success_weight(
                                retr.results[i].file_path, runs))

----------------------------------------------------------------------------
(* Claims about the repository ingestion                                   *)

Built == graph.op = "build_repo_graph"

PathOf(f) == <<f.dir, f.stem, f.ext>>

NodePaths == {graph.nodes[i].path : i \in 1..Len(graph.nodes)}

\* the module names the statements of a source name, when it parses
ImportedNames(source) ==
    IF ~source.parses THEN {}
    ELSE {Head(name) : name \in
            UNION {Range(source.statements[i].names) :
                        i \in 1..Len(source.statements)} \ {<<>>}}

\* the files of the tree that are nodes of the graph as Python files
PythonNodes ==
    {f \in Range(graph.tree) :
        \E i \in 1..Len(graph.nodes) :
            /\ graph.nodes[i].path = PathOf(f)
            /\ graph.nodes[i].type = "python"}

\* C23: every edge of build_repo_graph has relation "imports" and both its
\* "from" and its "to" are nodes of the same graph; an import that matches
\* no indexed Python file produces no edge (every edge leads from a Python
\* file to an indexed Python file whose stem the first imports); and a tree
\* of two files in which A imports one local file B by its module name
\* yields 2 nodes and exactly the edge A -> B.
C23_ImportEdges ==
    Built =>
        /\ \A e \in Range(graph.edges) :
            /\ e.relation = "imports"
            /\ e.from \in NodePaths
            /\ e.to \in NodePaths
            /\ \E a, b \in PythonNodes :
                /\ PathOf(a) = e.from
                /\ PathOf(b) = e.to
                /\ b.stem \in ImportedNames(a.source)
        /\ \A a \in PythonNodes :
            (\A b \in PythonNodes : b.stem \notin ImportedNames(a.source))
                => \A e \in Range(graph.edges) : e.from # PathOf(a)
        /\ \A a, b \in PythonNodes :
            (/\ Range(graph.tree) = {a, b}
             /\ a.stem # b.stem
             /\ ImportedNames(a.source) = {b.stem}
             /\ ImportedNames(b.source) \cap {a.stem, b.stem} = {})
            => /\ Len(graph.nodes) = 2
               /\ graph.edges = <<[from |-> PathOf(a), to |-> PathOf(b),
                                   relation |-> "imports"]>>

\* the graph of a tree of two Python files, the first naming the module of
\* the second in two import aliases, has its two nodes and its one edge
C23_Witness ==
    /\ Built
    /\ Len(graph.edges) = 1
    /\ Len(graph.nodes) = 2
    /\ \E a \in PythonNodes :
        /\ PathOf(a) = graph.edges[1].from
        /\ PathOf(a) # graph.edges[1].to
        /\ Len(a.source.statements[1].names) = 2

----------------------------------------------------------------------------
(* Claims about the claim of an issue                                      *)

Winners == {p \in 1..Len(issue.instances) : issue.instances[p].ret = "True"}

\* C29: when several instances call claim_issue concurrently for the same
\* issue carrying "status:triaged", at most one of the calls returns True.
C29_AtMostOneClaims == Cardinality(Winners) <= 1

\* every call has returned: one instance has claimed the issue, which no
\* longer carries "status:triaged", and another was told it had not
C29_Witness ==
    /\ Cardinality(Winners) = 1
    /\ "status:triaged" \notin issue.labels
    /\ "status:in-progress" \in issue.labels
    /\ \A p \in 1..Len(issue.instances) : issue.instances[p].pc = "returned"
    /\ \E p \in 1..Len(issue.instances) : issue.instances[p].ret = "False"

====
